---- MODULE Spec2Model ----
(***************************************************************************)
(* A model of run-ai (rai): the session Runner's tool loop, the output     *)
(* sink, and the provider adapters' background stream producers.           *)
(*                                                                         *)
(* Text is a sequence of tokens (strings); "\n" is the newline token.      *)
(***************************************************************************)
EXTENDS Integers, Sequences, FiniteSets, TLC

VARIABLES
    sink,              \* output.Sink: [console, log, logFile, silent]
    pc,                \* Run: position of the Runner
    iter,              \* Run: loop variable i
    messages,          \* Run: the conversation
    ch,                \* Run: events of the open stream not yet received
    fullText,          \* Run: per-iteration accumulators
    reasoningSummary,
    toolCalls,
    streamingAI,
    tcIdx,             \* Run: position in `for _, tc := range toolCalls`
    result,            \* Run: "none" while running, then "ok" or "err"
    script,            \* the provider's scripted answer (input)
    streamCalls,       \* number of Provider.Stream calls made
    lastReq,           \* req.Messages of the latest Provider.Stream call
    trace,             \* what the latest Runner step did
    adapter,           \* Stream: which adapter's producer runs
    body,              \* the HTTP response body: items the producer has not read
    bodyEnd,           \* what follows the items: "eof", "error" or "open"
    ctxDone,           \* the context passed to Stream is cancelled
    ppc,               \* producer goroutine: "read", "send" or "exited"
    pending,           \* events the current pass of the read loop still has to send
    ret,               \* the current pass returns after sending them
    pst,               \* parser state: [started, cur, acc]
    sch,               \* the channel's buffer
    schClosed,         \* close(ch) has run
    sent,              \* every event sent on the channel so far
    cancelOpen,        \* the context was cancelled while the stream was open
    upc,               \* sink users: "idle" or "streaming", per producer
    utext,             \* sink users: the text streamed so far, per producer
    handed,            \* records handed to the sink while its log file was open
    ops,               \* sink calls made so far
    mu,                \* Sink.mu: the goroutine holding it, or "free"
    lpc,               \* per goroutine: the sink method it is in and where
    closers,           \* goroutines whose Close has set logFile to nil
    arg,               \* the input of the function under study
    out,               \* its result, NoResult before it has run
    apc,               \* DeviceAuth: "device", "sleep", "poll" or "returned"
    interval,          \* DeviceAuth: interval, in ms
    deviceInterval,    \* DeviceAuth: deviceData.Interval, in s
    now,               \* the clock, in ms
    sleepFrom,         \* when the current time.After was started
    pollAt,            \* when the latest token poll was started, -1 before the first
    polls,             \* token polls started so far
    tokenData,         \* the latest token response
    authRet,           \* what DeviceAuth has returned
    authCtxDone,       \* the context passed to DeviceAuth is cancelled
    tpc,               \* runTerminalCommand: "idle", "running" or "returned"
    tclock,            \* seconds since cmd.CombinedOutput() was called
    tdur,              \* seconds the command takes when nothing stops it (input)
    orphan,            \* a process started by the shell outlives it, holding the output pipe (input)
    sessDone,          \* the session's context (Run's ctx) is cancelled
    tret,              \* what runTerminalCommand has returned
    disk,              \* the session log file on disk, one element per write
    sinkOff,           \* the offset of the sink's descriptor (os.Create)
    dpc,               \* where the goroutine writing the log file is
    installed,         \* the client's Transport is a debugTransport
    fops,              \* sink calls and round trips started so far
    logDir,            \* the files of <base>/.rai/log: file name -> content
    wall,              \* the wall clock, in seconds
    sess               \* the logged sessions: session -> [at, path, off, n]

runnerVars == <<pc, iter, messages, ch, fullText, reasoningSummary, toolCalls,
                streamingAI, tcIdx, result, script, streamCalls, lastReq, trace>>

streamVars == <<adapter, body, bodyEnd, ctxDone, ppc, pending, ret, pst, sch, schClosed,
                sent, cancelOpen>>

userVars == <<upc, utext, handed, ops>>

lockVars == <<mu, lpc, closers>>

pureVars == <<arg, out>>

authVars == <<apc, interval, deviceInterval, now, sleepFrom, pollAt, polls, tokenData,
              authRet, authCtxDone>>

toolVars == <<tpc, tclock, tdur, orphan, sessDone, tret>>

sessVars == <<logDir, wall, sess>>

fileVars == <<disk, sinkOff, dpc, installed, fops, sessVars>>

restVars == <<lockVars, pureVars, authVars, toolVars, fileVars>>

notAuth == <<sink, runnerVars, streamVars, userVars, lockVars, pureVars, toolVars, fileVars>>

vars == <<sink, runnerVars, streamVars, userVars, restVars>>

----
\* Bounds of the model.
MaxChunks == 2
MaxCalls == 2

\* Program constants.
maxToolIterations == 10

terminalToolName == "terminal"

EventAI == "AI"
EventReasoning == "REASON"
EventCMD == "CMD"
EventOUT == "OUT"
EventERR == "ERR"

----
\* Text helpers.

HasSuffixNL(text) == Len(text) > 0 /\ text[Len(text)] = "\n"

RECURSIVE TrimRightNL(_)
TrimRightNL(text) ==
    IF HasSuffixNL(text) THEN TrimRightNL(SubSeq(text, 1, Len(text) - 1)) ELSE text

RECURSIVE Flatten(_)
Flatten(seqs) == IF seqs = <<>> THEN <<>> ELSE Head(seqs) \o Flatten(Tail(seqs))

----
\* The output sink (src/internal/output/output.go).  Each operator maps the
\* sink before a method call to the sink after it; the method holds s.mu for
\* its whole body.  `by` tags the console write with its caller.

NewSink(silent, logOn) ==
    [console |-> <<>>, log |-> <<>>,
     logFile |-> IF logOn THEN "open" ELSE "nil", silent |-> silent]

LogRecord(kind, text) == [kind |-> kind, text |-> text]

Frag(by, text) == [by |-> by, text |-> text]

WriteHeader(s) ==
    IF s.logFile = "nil" THEN s
    ELSE [s EXCEPT !.log = Append(@, LogRecord("HEADER", <<>>))]

EmitIgnoresSilent(s, by, kind, text) ==
    LET c == Append(s.console, Frag(by, <<"[", kind, "] ">> \o text \o <<"\n">>))
        l == IF s.logFile # "nil" THEN Append(s.log, LogRecord(kind, text)) ELSE s.log
    IN [s EXCEPT !.console = c, !.log = l]

Emit(s, by, kind, text) ==
    LET c == IF ~s.silent \/ kind = EventERR
             THEN Append(s.console, Frag(by, <<"[", kind, "] ">> \o text \o <<"\n">>))
             ELSE s.console
        l == IF s.logFile # "nil" THEN Append(s.log, LogRecord(kind, text)) ELSE s.log
    IN [s EXCEPT !.console = c, !.log = l]

EmitLog(s, kind, text) ==
    IF s.logFile # "nil" THEN [s EXCEPT !.log = Append(@, LogRecord(kind, text))] ELSE s

BeginAIStream(s, by) ==
    IF s.silent THEN s ELSE [s EXCEPT !.console = Append(@, Frag(by, <<"[", EventAI, "] ">>))]

EmitAIChunk(s, by, text) ==
    IF s.silent THEN s ELSE [s EXCEPT !.console = Append(@, Frag(by, text))]

EndAIStreamAlwaysNewline(s, by, finalText) ==
    IF s.silent THEN s ELSE [s EXCEPT !.console = Append(@, Frag(by, <<"\n">>))]

EndAIStream(s, by, finalText) ==
    IF s.silent THEN s
    ELSE IF ~HasSuffixNL(finalText)
         THEN [s EXCEPT !.console = Append(@, Frag(by, <<"\n">>))]
         ELSE s

EmitFinalNeedsLog(s, by, text) ==
    IF s.logFile = "nil" THEN s
    ELSE [s EXCEPT !.console = Append(@, Frag(by, IF HasSuffixNL(text) THEN text ELSE text \o <<"\n">>)),
                   !.log = Append(@, LogRecord(EventAI, text))]

EmitFinal(s, by, text) ==
    LET c == Append(s.console,
                    Frag(by, IF HasSuffixNL(text) THEN text ELSE text \o <<"\n">>))
        l == IF s.logFile # "nil" THEN Append(s.log, LogRecord(EventAI, text)) ELSE s.log
    IN [s EXCEPT !.console = c, !.log = l]

Close(s) == [s EXCEPT !.logFile = "nil"]

IsSilent(s) == s.silent

----
\* Tool calls and their execution (src/unnamed/part_007, lines 233-305).
\* ToolCall.Arguments is raw JSON text: `form` says what json.Unmarshal makes
\* of it and `cmd` is the command it carries.

Args(form, cmd) == [form |-> form, cmd |-> cmd]

ToolCall(id, name, args) == [id |-> id, name |-> name, args |-> args]

\* What the model may ask for: the terminal tool with a command that exits 0,
\* one that exits non-zero after printing, one that outlives the timeout and
\* arguments that are no JSON; a discovered skill; a tool nobody declared.
Requests ==
    { [name |-> terminalToolName, args |-> Args("object", "ok")],
      [name |-> terminalToolName, args |-> Args("object", "fail")],
      [name |-> terminalToolName, args |-> Args("object", "slow")],
      [name |-> terminalToolName, args |-> Args("garbage", "")],
      [name |-> "skill1", args |-> Args("object", "")],
      [name |-> "get_weather", args |-> Args("object", "")] }

Skills == {"skill1"}

Ok(v) == [err |-> <<>>, val |-> v]
Fail(e, v) == [err |-> e, val |-> v]

parseTerminalArgs(raw) ==
    IF raw.form = "empty" THEN Fail(<<"terminal tool requires command">>, "")
    ELSE IF raw.form \notin {"object", "string"}
         THEN Fail(<<"invalid terminal arguments">>, "")
    ELSE IF raw.cmd = "" THEN Fail(<<"terminal tool requires command">>, "")
    ELSE Ok(raw.cmd)

\* sh -c <command> under the 30 s deadline: combined output and error.
runTerminalCommand(command) ==
    CASE command = "ok"   -> Ok(<<"out">>)
      [] command = "fail" -> Fail(<<"command failed">>, <<"partial">>)
      [] command = "slow" -> Fail(<<"command timed out">>, <<>>)
      [] OTHER            -> Fail(<<"command failed">>, <<>>)

executeToolCall(tc) ==
    IF tc.name = terminalToolName
    THEN LET a == parseTerminalArgs(tc.args)
         IN IF a.err # <<>> THEN Fail(a.err, <<>>) ELSE runTerminalCommand(a.val)
    ELSE IF tc.name \in Skills THEN Ok(<<"[skill: ", tc.name, "]\n", "body">>)
    ELSE Fail(<<"unknown tool: ", tc.name>>, <<>>)

\* strings.TrimSpace(strings.Join(lines[i:], "\n")) for the first line that
\* starts with work:/reasoning:/steps:, "" when there is none.
inferReasoningSummary(text) ==
    LET starts == { p \in 1..Len(text) :
                      /\ text[p] \in {"work:", "reasoning:", "steps:"}
                      /\ (p = 1 \/ text[p - 1] = "\n") }
    IN IF starts = {} THEN <<>>
       ELSE LET p == CHOOSE q \in starts : \A r \in starts : q <= r
            IN TrimRightNL(SubSeq(text, p, Len(text)))

----
\* Messages (provider.Message as the Runner builds it).  Tool call ids are
\* numbered; NoID is the empty string of an unset id.

NoID == 0

Msg(role, content, toolCallID, calls) ==
    [role |-> role, content |-> content, tool_call_id |-> toolCallID, tool_calls |-> calls]

buildMessages ==
    <<Msg("system", <<"sys">>, NoID, <<>>), Msg("user", <<"prompt">>, NoID, <<>>)>>

\* Stream events.
EvText(t) == [type |-> "text", text |-> t, calls |-> <<>>]
EvReasoning(t) == [type |-> "reasoning", text |-> t, calls |-> <<>>]
EvToolCalls(cs) == [type |-> "tool_calls", text |-> <<>>, calls |-> cs]
EvDone == [type |-> "done", text |-> <<>>, calls |-> <<>>]
EvError == [type |-> "error", text |-> <<"E">>, calls |-> <<>>]

----
\* The provider as the Runner sees it.  The model's tool-requesting answer is
\* an input (script); on each Stream call the provider either fails, or
\* streams that answer, or streams the text alone, and ends the stream with
\* done, with an error event, or by closing the channel with neither.

ChunkSet == { <<"a">>, <<"work:", "b", "\n">> }

RECURSIVE SeqsOfLen(_, _)
SeqsOfLen(S, n) ==
    IF n = 0 THEN { <<>> }
    ELSE { <<x>> \o t : x \in S, t \in SeqsOfLen(S, n - 1) }

SeqsUpTo(S, n) == UNION { SeqsOfLen(S, k) : k \in 0..n }

WithIDs(reqs) == [k \in 1..Len(reqs) |-> ToolCall(k, reqs[k].name, reqs[k].args)]

\* Text and tool calls are accumulated independently by Run, so the scripts
\* vary one of them at a time: every text with one plain call, and every list
\* of calls with one plain chunk.
TextScripts ==
    [ text : SeqsUpTo(ChunkSet, MaxChunks),
      reasoning : BOOLEAN,
      calls : { WithIDs(<<[name |-> terminalToolName, args |-> Args("object", "ok")]>>) } ]

CallScripts ==
    [ text : { << <<"a">> >> },
      reasoning : { FALSE },
      calls : { WithIDs(r) : r \in SeqsUpTo(Requests, MaxCalls) \ { <<>> } } ]

Scripts == TextScripts \cup CallScripts

StreamEvents(sc, kind, ending) ==
    [k \in 1..Len(sc.text) |-> EvText(sc.text[k])]
    \o (IF sc.reasoning THEN <<EvReasoning(<<"why">>)>> ELSE <<>>)
    \o (IF kind = "tools" THEN [k \in 1..Len(sc.calls) |-> EvToolCalls(<<sc.calls[k]>>)]
        ELSE <<>>)
    \o (CASE ending = "done" -> <<EvDone>>
          [] ending = "error" -> <<EvError>>
          [] OTHER -> <<>>)

----
\* The session Runner (src/unnamed/part_007, Run).

By == "runner"

Step(op, failed) == [op |-> op, failed |-> failed]

LoopCondInclusive(i) == i <= maxToolIterations

\* Line 46: the loop condition.
LoopCond(i) == i < maxToolIterations

StreamErrorSinkNoEnd(s, streaming, text, errText) ==
    Emit(s, By, EventERR, <<"stream error: ">> \o errText)

\* Lines 64-68: what Run writes to the sink on an error event.
StreamErrorSink(s, streaming, text, errText) ==
    Emit(IF streaming THEN EndAIStream(s, By, text) ELSE s,
         By, EventERR, <<"stream error: ">> \o errText)

\* Lines 89-122: what Run writes to the sink once the channel has closed.
AfterStream(s, text, summary, calls, streaming) ==
    LET s1 == IF streaming THEN EndAIStream(s, By, text) ELSE s
        rs == IF summary = <<>> THEN inferReasoningSummary(text) ELSE summary
        s2 == IF text # <<>> /\ ~(IsSilent(s1) /\ Len(calls) = 0)
              THEN EmitLog(s1, EventAI, text) ELSE s1
        s3 == IF Len(calls) = 0 /\ IsSilent(s2) THEN EmitFinal(s2, By, text) ELSE s2
    IN IF rs = <<>> THEN s3
       ELSE IF IsSilent(s3) THEN EmitLog(s3, EventReasoning, rs)
       ELSE Emit(s3, By, EventReasoning, rs)

ToolContent(name, txt) == <<"[", name, " result]\n">> \o txt

ToolStepDropsError(s, tc) ==
    LET r == executeToolCall(tc)
        s1 == Emit(s, By, EventCMD, <<"tool: ", tc.name>>)
    IN [sink |-> IF r.err # <<>> THEN Emit(s1, By, EventERR, <<"tool error: ">> \o r.err)
                 ELSE Emit(s1, By, EventOUT, r.val),
        msg |-> Msg("tool", ToolContent(tc.name, r.val), tc.id, <<>>),
        failed |-> r.err # <<>>, executed |-> TRUE]

\* Lines 132-169: one pass of the tool loop's body.
ToolStep(s, tc) ==
    LET a == parseTerminalArgs(tc.args)
        r == executeToolCall(tc)
        errMsg == <<"tool error: ">> \o r.err
        label == IF tc.name = terminalToolName THEN <<a.val>>
                 ELSE <<"tool: ", tc.name, "(", tc.args.form, ")">>
        s1 == Emit(s, By, EventCMD, label)
    IN IF tc.name = terminalToolName /\ a.err # <<>>
       THEN [sink |-> Emit(s, By, EventERR, <<"tool error: ">> \o a.err),
             msg |-> Msg("tool", ToolContent(tc.name, a.err), NoID, <<>>),
             failed |-> TRUE, executed |-> FALSE]
       ELSE IF r.err # <<>>
       THEN LET s2 == Emit(s1, By, EventERR, errMsg)
            IN [sink |-> IF r.val # <<>> THEN Emit(s2, By, EventOUT, r.val) ELSE s2,
                msg |-> Msg("tool",
                            ToolContent(tc.name,
                                        IF r.val # <<>> THEN errMsg \o <<"\n">> \o r.val
                                        ELSE errMsg),
                            tc.id, <<>>),
                failed |-> TRUE, executed |-> TRUE]
       ELSE [sink |-> Emit(s1, By, EventOUT, r.val),
             msg |-> Msg("tool", ToolContent(tc.name, r.val), tc.id, <<>>),
             failed |-> FALSE, executed |-> TRUE]

ClearIteration ==
    /\ fullText' = <<>>
    /\ reasoningSummary' = <<>>
    /\ toolCalls' = <<>>
    /\ streamingAI' = FALSE
    /\ tcIdx' = 0

\* Lines 46-56: cfg.Provider.Stream(ctx, req), and its error return.
StreamCall ==
    /\ pc = "loop"
    /\ LoopCond(iter)
    /\ streamCalls' = streamCalls + 1
    /\ lastReq' = messages
    /\ ClearIteration
    /\ \E fails \in BOOLEAN, kind \in {"tools", "final"}, ending \in {"done", "error", "cut"} :
         IF fails
         THEN /\ sink' = Emit(sink, By, EventERR, <<"provider error: ", "E">>)
              /\ result' = "err"
              /\ pc' = "returned"
              /\ ch' = <<>>
              /\ trace' = Step("StreamFailed", FALSE)
         ELSE /\ ch' = StreamEvents(script, kind, ending)
              /\ pc' = "consume"
              /\ trace' = Step("StreamCall", FALSE)
              /\ UNCHANGED <<sink, result>>
    /\ UNCHANGED <<iter, messages, script>>
    /\ UNCHANGED <<streamVars, userVars, restVars>>

\* Lines 63-87: one event received from the channel.
ConsumeEvent ==
    /\ pc = "consume"
    /\ ch # <<>>
    /\ LET ev == Head(ch) IN
         /\ ch' = Tail(ch)
         /\ IF ev.type = "error"
            THEN /\ sink' = StreamErrorSink(sink, streamingAI, fullText, ev.text)
                 /\ result' = "err"
                 /\ pc' = "returned"
                 /\ trace' = Step("StreamError", FALSE)
                 /\ UNCHANGED <<fullText, reasoningSummary, toolCalls, streamingAI>>
            ELSE /\ fullText' = IF ev.type = "text" THEN fullText \o ev.text ELSE fullText
                 /\ IF ev.type = "text" /\ ev.text # <<>> /\ ~IsSilent(sink)
                    THEN /\ sink' = EmitAIChunk(IF streamingAI THEN sink
                                                ELSE BeginAIStream(sink, By), By, ev.text)
                         /\ streamingAI' = TRUE
                    ELSE UNCHANGED <<sink, streamingAI>>
                 /\ reasoningSummary' = IF ev.type = "reasoning"
                                        THEN reasoningSummary \o ev.text
                                        ELSE reasoningSummary
                 /\ toolCalls' = toolCalls \o ev.calls
                 /\ trace' = Step(IF ev.type = "done" THEN "Done" ELSE "Event", FALSE)
                 /\ UNCHANGED <<result, pc>>
    /\ UNCHANGED <<iter, messages, tcIdx, script, streamCalls, lastReq>>
    /\ UNCHANGED <<streamVars, userVars, restVars>>

ChannelClosedDropsHistory ==
    /\ pc = "consume"
    /\ ch = <<>>
    /\ sink' = AfterStream(sink, fullText, reasoningSummary, toolCalls, streamingAI)
    /\ IF Len(toolCalls) = 0
       THEN /\ result' = "ok"
            /\ pc' = "returned"
            /\ trace' = Step("Final", FALSE)
            /\ UNCHANGED <<messages, tcIdx>>
       ELSE /\ messages' = Append(buildMessages, Msg("assistant", fullText, NoID, toolCalls))
            /\ tcIdx' = 1
            /\ pc' = "tools"
            /\ trace' = Step("Assistant", FALSE)
            /\ UNCHANGED result
    /\ UNCHANGED <<iter, ch, fullText, reasoningSummary, toolCalls, streamingAI,
                   script, streamCalls, lastReq>>
    /\ UNCHANGED <<streamVars, userVars, restVars>>

\* Lines 89-129: the channel is closed and drained.
ChannelClosed ==
    /\ pc = "consume"
    /\ ch = <<>>
    /\ sink' = AfterStream(sink, fullText, reasoningSummary, toolCalls, streamingAI)
    /\ IF Len(toolCalls) = 0
       THEN /\ result' = "ok"
            /\ pc' = "returned"
            /\ trace' = Step("Final", FALSE)
            /\ UNCHANGED <<messages, tcIdx>>
       ELSE /\ messages' = Append(messages, Msg("assistant", fullText, NoID, toolCalls))
            /\ tcIdx' = 1
            /\ pc' = "tools"
            /\ trace' = Step("Assistant", FALSE)
            /\ UNCHANGED result
    /\ UNCHANGED <<iter, ch, fullText, reasoningSummary, toolCalls, streamingAI,
                   script, streamCalls, lastReq>>
    /\ UNCHANGED <<streamVars, userVars, restVars>>

ExecToolSkipsArgsError ==
    /\ pc = "tools"
    /\ tcIdx <= Len(toolCalls)
    /\ LET t == ToolStep(sink, toolCalls[tcIdx]) IN
         /\ sink' = t.sink
         /\ messages' = IF t.executed THEN Append(messages, t.msg) ELSE messages
         /\ trace' = Step(IF t.executed THEN "Tool" ELSE "ToolArgs", t.failed)
    /\ IF tcIdx < Len(toolCalls)
       THEN /\ tcIdx' = tcIdx + 1
            /\ UNCHANGED <<pc, iter, fullText, reasoningSummary, toolCalls, streamingAI>>
       ELSE /\ pc' = "loop"
            /\ iter' = iter + 1
            /\ ClearIteration
    /\ UNCHANGED <<ch, result, script, streamCalls, lastReq>>
    /\ UNCHANGED <<streamVars, userVars, restVars>>

\* Lines 132-169: the next tool call of the iteration; after the last one the
\* loop variable advances.
ExecTool ==
    /\ pc = "tools"
    /\ tcIdx <= Len(toolCalls)
    /\ LET t == ToolStep(sink, toolCalls[tcIdx]) IN
         /\ sink' = t.sink
         /\ messages' = Append(messages, t.msg)
         /\ trace' = Step(IF t.executed THEN "Tool" ELSE "ToolArgs", t.failed)
    /\ IF tcIdx < Len(toolCalls)
       THEN /\ tcIdx' = tcIdx + 1
            /\ UNCHANGED <<pc, iter, fullText, reasoningSummary, toolCalls, streamingAI>>
       ELSE /\ pc' = "loop"
            /\ iter' = iter + 1
            /\ ClearIteration
    /\ UNCHANGED <<ch, result, script, streamCalls, lastReq>>
    /\ UNCHANGED <<streamVars, userVars, restVars>>

LoopExhaustedSilent ==
    /\ pc = "loop"
    /\ ~LoopCond(iter)
    /\ result' = "err"
    /\ pc' = "returned"
    /\ trace' = Step("Exhausted", FALSE)
    /\ UNCHANGED <<sink, iter, messages, ch, fullText, reasoningSummary, toolCalls,
                   streamingAI, tcIdx, script, streamCalls, lastReq>>
    /\ UNCHANGED <<streamVars, userVars, restVars>>

\* Lines 172-173: the loop ran out.
LoopExhausted ==
    /\ pc = "loop"
    /\ ~LoopCond(iter)
    /\ sink' = Emit(sink, By, EventERR, <<"maximum tool call iterations reached">>)
    /\ result' = "err"
    /\ pc' = "returned"
    /\ trace' = Step("Exhausted", FALSE)
    /\ UNCHANGED <<iter, messages, ch, fullText, reasoningSummary, toolCalls,
                   streamingAI, tcIdx, script, streamCalls, lastReq>>
    /\ UNCHANGED <<streamVars, userVars, restVars>>

RunnerIdle ==
    /\ pc = "returned"
    /\ iter = 0
    /\ messages = <<>>
    /\ ch = <<>>
    /\ fullText = <<>>
    /\ reasoningSummary = <<>>
    /\ toolCalls = <<>>
    /\ streamingAI = FALSE
    /\ tcIdx = 0
    /\ result = "none"
    /\ script = [text |-> <<>>, reasoning |-> FALSE, calls |-> <<>>]
    /\ streamCalls = 0
    /\ lastReq = <<>>
    /\ trace = Step("Init", FALSE)

StreamIdle ==
    /\ adapter = "none"
    /\ body = <<>>
    /\ bodyEnd = "eof"
    /\ ctxDone = FALSE
    /\ ppc = "exited"
    /\ pending = <<>>
    /\ ret = FALSE
    /\ pst = [started |-> FALSE, cur |-> "", acc |-> <<>>]
    /\ sch = <<>>
    /\ schClosed = TRUE
    /\ sent = <<>>
    /\ cancelOpen = FALSE

UsersIdle ==
    /\ upc = <<>>
    /\ utext = <<>>
    /\ handed = <<>>
    /\ ops = 0

NoResult == [has |-> FALSE, val |-> <<>>]

Result(v) == [has |-> TRUE, val |-> v]

LockIdle ==
    /\ mu = "free"
    /\ lpc = <<>>
    /\ closers = {}

PureIdle ==
    /\ arg = <<>>
    /\ out = NoResult

Ret(kind, v) == [kind |-> kind, v |-> v]

Resp(status, json, token, error, iv) ==
    [status |-> status, json |-> json, access_token |-> token, error |-> error,
     interval |-> iv]

AuthIdle ==
    /\ apc = "returned"
    /\ interval = 0
    /\ deviceInterval = 0
    /\ now = 0
    /\ sleepFrom = 0
    /\ pollAt = -1
    /\ polls = 0
    /\ tokenData = Resp(0, FALSE, "", "", 0)
    /\ authRet = Ret("none", "")
    /\ authCtxDone = FALSE

ToolIdle ==
    /\ tpc = "returned"
    /\ tclock = 0
    /\ tdur = 0
    /\ orphan = FALSE
    /\ sessDone = FALSE
    /\ tret = ""

\* A position of the goroutine that uses the log file: at is "idle", "locked"
\* (a sink method holds s.mu), "wrote" (its Fprintf is done) or "block" (in
\* appendBlock, n of the block's three Fprint calls done).
Pos(at, title, n) == [at |-> at, title |-> title, n |-> n]

\* No session has been started and the log directory is empty.
SessIdle ==
    /\ logDir = <<>>
    /\ wall = 0
    /\ sess = <<>>

FileIdle ==
    /\ disk = <<>>
    /\ sinkOff = 0
    /\ dpc = Pos("idle", "", 0)
    /\ installed = FALSE
    /\ fops = 0
    /\ SessIdle

RestIdle ==
    /\ LockIdle
    /\ PureIdle
    /\ AuthIdle
    /\ ToolIdle
    /\ FileIdle

RunnerInit ==
    /\ \E silent \in BOOLEAN, logOn \in BOOLEAN : sink = WriteHeader(NewSink(silent, logOn))
    /\ script \in Scripts
    /\ pc = "loop"
    /\ iter = 0
    /\ messages = buildMessages
    /\ ch = <<>>
    /\ fullText = <<>>
    /\ reasoningSummary = <<>>
    /\ toolCalls = <<>>
    /\ streamingAI = FALSE
    /\ tcIdx = 0
    /\ result = "none"
    /\ streamCalls = 0
    /\ lastReq = <<>>
    /\ trace = Step("Init", FALSE)
    /\ StreamIdle
    /\ UsersIdle
    /\ RestIdle

RunnerNext ==
    \/ StreamCall
    \/ ConsumeEvent
    \/ ChannelClosed
    \/ ExecTool
    \/ LoopExhausted

\* One invocation of session.Run against a scripted provider.
SpecRunner == RunnerInit /\ [][RunnerNext]_vars

\* The same with the goroutine of Run running whenever it can; the scripted
\* provider closes every channel it hands out.
FairSpecRunner == SpecRunner /\ WF_vars(RunnerNext)

----
\* The adapters' background producers.  Stream starts one goroutine that reads
\* the HTTP response body, sends events on a channel of capacity 16 and closes
\* the channel when the read function returns.
\*
\* The body is a sequence of items: an SSE line for the OpenAI and Copilot
\* readers, an SSE frame (an optional `event:` line and its `data:` line) for
\* the Anthropic reader, a JSON token or array element for the Gemini reader.

ChanCap == 16

MaxLines == 3

Adapters == {"openai", "copilot-responses", "copilot-chat", "anthropic", "google"}

EvErr(cause) == [type |-> "error", text |-> <<cause>>, calls |-> <<>>]

IsTerminal(ev) == ev.type \in {"done", "error"}

Pass(events, returns, state) == [events |-> events, ret |-> returns, pst |-> state]

Nil == [id |-> NoID, name |-> "", args |-> Args("empty", "")]

WireCall == ToolCall(1, terminalToolName, Args("object", "ok"))

\* Lines of a Responses-API stream: k is "other" (no `data: ` prefix), "done"
\* (`data: [DONE]`), "bad" (payload is no JSON) or "json".
SSELine(k, type, delta, item) == [k |-> k, type |-> type, delta |-> delta, item |-> item]

ResponsesLines ==
    { SSELine("other", "", <<>>, Nil),
      SSELine("json", "response.output_text.delta", <<"x">>, Nil),
      SSELine("json", "response.reasoning_summary_text.delta", <<"r">>, Nil),
      SSELine("json", "response.function_call_arguments.done", <<>>, WireCall),
      SSELine("json", "response.completed", <<>>, Nil),
      SSELine("done", "", <<>>, Nil) }

OpenAIReadLineNoReturn(st, line) ==
    IF line.k = "done" \/ (line.k = "json" /\ line.type = "response.completed")
    THEN Pass(<<EvDone>>, FALSE, st)
    ELSE Pass(<<>>, FALSE, st)

\* openAIProvider.readSSE, one pass of the loop after the context check.
OpenAIReadLine(st, line) ==
    IF line.k = "other" THEN Pass(<<>>, FALSE, st)
    ELSE IF line.k = "done" THEN Pass(<<EvDone>>, TRUE, st)
    ELSE IF line.k = "bad" THEN Pass(<<>>, FALSE, st)
    ELSE CASE line.type = "response.output_text.delta" ->
                Pass(IF line.delta # <<>> THEN <<EvText(line.delta)>> ELSE <<>>, FALSE, st)
           [] line.type = "response.reasoning_summary_text.delta" ->
                Pass(IF line.delta # <<>> THEN <<EvReasoning(line.delta)>> ELSE <<>>, FALSE, st)
           [] line.type = "response.function_call_arguments.done" ->
                Pass(IF line.item # Nil THEN <<EvToolCalls(<<line.item>>)>> ELSE <<>>, FALSE, st)
           [] line.type = "response.completed" -> Pass(<<EvDone>>, TRUE, st)
           [] OTHER -> Pass(<<>>, FALSE, st)

\* copilotProvider.readResponsesSSE, one pass of the loop after the context check.
CopilotReadResponsesLine(st, line) ==
    IF line.k = "other" THEN Pass(<<>>, FALSE, st)
    ELSE IF line.k = "done" THEN Pass(<<EvDone>>, TRUE, st)
    ELSE IF line.k = "bad" THEN Pass(<<>>, FALSE, st)
    ELSE CASE line.type = "response.output_text.delta" ->
                Pass(IF line.delta # <<>> THEN <<EvText(line.delta)>> ELSE <<>>, FALSE, st)
           [] line.type = "response.function_call_arguments.done" ->
                Pass(IF line.item # Nil THEN <<EvToolCalls(<<line.item>>)>> ELSE <<>>, FALSE, st)
           [] line.type = "response.completed" -> Pass(<<EvDone>>, TRUE, st)
           [] OTHER -> Pass(<<>>, FALSE, st)

\* Lines of a Chat Completions stream: a "json" line is a chunk whose first
\* choice has delta.content, delta.tool_calls (index, id, name, arguments) and
\* finish_reason; choices says whether the chunk has any choice.
ChatDelta(index, id, name, args) == [index |-> index, id |-> id, name |-> name, args |-> args]

ChatLine(k, choices, content, deltas, fin) ==
    [k |-> k, choices |-> choices, content |-> content, deltas |-> deltas, fin |-> fin]

ChatLines ==
    { ChatLine("json", TRUE, <<"x">>, <<>>, ""),
      ChatLine("json", TRUE, <<>>, <<ChatDelta(0, 1, terminalToolName, <<"{">>)>>, ""),
      ChatLine("json", TRUE, <<>>, <<>>, "tool_calls"),
      ChatLine("json", TRUE, <<>>, <<>>, "stop"),
      ChatLine("done", FALSE, <<>>, <<>>, "") }

\* toolCalls map[int]*chatToolAcc as a sequence of [index, id, name, args]
\* entries in order of insertion.
AccHas(acc, index) == \E k \in 1..Len(acc) : acc[k].index = index

AccMerge(acc, d) ==
    IF AccHas(acc, d.index)
    THEN [k \in 1..Len(acc) |->
            IF acc[k].index = d.index
            THEN [index |-> d.index,
                  id |-> IF d.id # NoID THEN d.id ELSE acc[k].id,
                  name |-> IF d.name # "" THEN d.name ELSE acc[k].name,
                  args |-> acc[k].args \o d.args]
            ELSE acc[k]]
    ELSE Append(acc, d)

RECURSIVE AccMergeAll(_, _)
AccMergeAll(acc, deltas) ==
    IF deltas = <<>> THEN acc ELSE AccMergeAll(AccMerge(acc, Head(deltas)), Tail(deltas))

Perms(n) == { f \in [1..n -> 1..n] : \A i, j \in 1..n : f[i] = f[j] => i = j }

RECURSIVE FlushEvents(_)
FlushEvents(entries) ==
    IF entries = <<>> THEN <<>>
    ELSE (IF Head(entries).name # ""
          THEN <<EvToolCalls(<<ToolCall(Head(entries).id, Head(entries).name, Head(entries).args)>>)>>
          ELSE <<>>) \o FlushEvents(Tail(entries))

\* copilotProvider.flushToolCalls: `for _, tc := range acc` visits the map in an
\* order the runtime picks; one event per named call.
flushToolCalls(acc) ==
    { FlushEvents([k \in 1..Len(acc) |-> acc[f[k]]]) : f \in Perms(Len(acc)) }

\* copilotProvider.readChatSSE, one pass of the loop after the context check:
\* the set of passes the map order allows.
CopilotReadChatLine(st, line) ==
    IF line.k = "other" THEN { Pass(<<>>, FALSE, st) }
    ELSE IF line.k = "done"
         THEN { Pass(fl \o <<EvDone>>, TRUE, st) : fl \in flushToolCalls(st.acc) }
    ELSE IF line.k = "bad" \/ ~line.choices THEN { Pass(<<>>, FALSE, st) }
    ELSE LET text == IF line.content # <<>> THEN <<EvText(line.content)>> ELSE <<>>
             acc1 == AccMergeAll(st.acc, line.deltas)
         IN IF line.fin \in {"tool_calls", "stop"} /\ Len(acc1) > 0
            THEN { Pass(text \o fl, FALSE, [st EXCEPT !.acc = <<>>]) : fl \in flushToolCalls(acc1) }
            ELSE { Pass(text, FALSE, [st EXCEPT !.acc = acc1]) }

\* Frames of an Anthropic stream: event is the name on the `event:` line (""
\* when the frame has none), data says whether a `data:` line follows, json
\* whether its payload parses, dtype and text are delta.type and delta.text.
Frame(event, data, json, dtype, text) ==
    [event |-> event, data |-> data, json |-> json, dtype |-> dtype, text |-> text]

AnthropicFrames ==
    { Frame("content_block_delta", TRUE, TRUE, "text_delta", <<"x">>),
      Frame("", TRUE, TRUE, "text_delta", <<"y">>),
      Frame("message_stop", TRUE, TRUE, "", <<>>),
      Frame("error", TRUE, TRUE, "", <<>>),
      Frame("error", TRUE, FALSE, "", <<>>) }

\* Frames of a stream that carries a tool_use block: the block's start, a
\* partial-JSON delta, the block's stop, besides text and the end of the message.
AnthropicToolFrames ==
    { Frame("content_block_start", TRUE, TRUE, "tool_use", <<>>),
      Frame("content_block_delta", TRUE, TRUE, "input_json_delta", <<"{">>),
      Frame("content_block_stop", TRUE, TRUE, "", <<>>),
      Frame("content_block_delta", TRUE, TRUE, "text_delta", <<"x">>),
      Frame("message_stop", TRUE, TRUE, "", <<>>) }

\* anthropicProvider.readSSE, the passes of the loop over one frame.
AnthropicReadFrame(st, fr) ==
    LET cur == IF fr.event # "" THEN fr.event ELSE st.cur
        st1 == [st EXCEPT !.cur = cur]
    IN IF ~fr.data THEN Pass(<<>>, FALSE, st1)
       ELSE CASE cur = "content_block_delta" ->
                   Pass(IF fr.json /\ fr.dtype = "text_delta" /\ fr.text # <<>>
                        THEN <<EvText(fr.text)>> ELSE <<>>, FALSE, st1)
              [] cur = "content_block_start" -> Pass(<<>>, FALSE, st1)
              [] cur = "message_stop" -> Pass(<<EvDone>>, TRUE, st1)
              [] cur = "error" ->
                   Pass(IF fr.json THEN <<EvErr("anthropic")>> ELSE <<>>, TRUE, st1)
              [] OTHER -> Pass(<<>>, FALSE, st1)

\* Items of a Gemini stream: k is "open" (the token `[`), "close" (`]`), "elem"
\* (an array element that decodes) or "bad" (anything else); an element has
\* text, function calls and possibly an error object.
GItem(k, text, calls, error) == [k |-> k, text |-> text, calls |-> calls, error |-> error]

GoogleItems ==
    { GItem("open", <<>>, <<>>, FALSE),
      GItem("elem", <<"x">>, <<>>, FALSE),
      GItem("elem", <<>>, <<ToolCall(NoID, terminalToolName, Args("object", "ok"))>>, FALSE),
      GItem("elem", <<>>, <<>>, TRUE),
      GItem("close", <<>>, <<>>, FALSE) }

\* googleProvider.readStream: decoder.Token() for the opening bracket, then one
\* pass of `for decoder.More()`.  The context is looked at only after More()
\* has said true.
GoogleReadItem(st, it, cancelled) ==
    IF ~st.started
    THEN IF it.k = "open" THEN Pass(<<>>, FALSE, [st EXCEPT !.started = TRUE])
         ELSE Pass(<<EvErr("format")>>, TRUE, st)
    ELSE IF it.k = "close" THEN Pass(<<EvDone>>, TRUE, st)
    ELSE IF cancelled THEN Pass(<<EvErr("ctx")>>, TRUE, st)
    ELSE IF it.k # "elem" THEN Pass(<<EvErr("decode")>>, TRUE, st)
    ELSE IF it.error THEN Pass(<<EvErr("google")>>, TRUE, st)
    ELSE Pass((IF it.text # <<>> THEN <<EvText(it.text)>> ELSE <<>>)
              \o [k \in 1..Len(it.calls) |-> EvToolCalls(<<it.calls[k]>>)], FALSE, st)

\* googleProvider.readStream when the decoder cannot read on: Token() fails
\* before the array has started, More() says false after.
GoogleReadEnd(st, cause) ==
    IF ~st.started THEN Pass(<<EvErr(cause)>>, TRUE, st) ELSE Pass(<<EvDone>>, TRUE, st)

\* The scanner-based readers when scanner.Scan() says false: scanner.Err() is
\* nil at the end of the body.
ScannerReadEnd(st, cause) ==
    Pass(IF cause = "eof" THEN <<>> ELSE <<EvErr(cause)>>, TRUE, st)

\* What the next read of the body gives: an item, or the reason there is none.
\* A cancelled context aborts the transfer, so a read may fail with the
\* context's error while items that were not yet received are lost.
ReadOutcomes ==
    (IF body # <<>> THEN {"item"}
     ELSE IF bodyEnd = "open" THEN {} ELSE {bodyEnd})
    \cup (IF ctxDone THEN {"ctx"} ELSE {})

ItemsOf(a) ==
    CASE a \in {"openai", "copilot-responses"} -> ResponsesLines
      [] a = "copilot-chat" -> ChatLines
      [] a = "anthropic" -> AnthropicFrames
      [] OTHER -> GoogleItems

\* The passes the adapter's reader can make on an item.
ReadItem(a, st, it, cancelled) ==
    IF a = "google" THEN { GoogleReadItem(st, it, cancelled) }
    ELSE IF cancelled THEN { Pass(<<EvErr("ctx")>>, TRUE, st) }
    ELSE CASE a = "openai" -> { OpenAIReadLine(st, it) }
           [] a = "copilot-responses" -> { CopilotReadResponsesLine(st, it) }
           [] a = "copilot-chat" -> CopilotReadChatLine(st, it)
           [] OTHER -> { AnthropicReadFrame(st, it) }

ReadEnd(a, st, cause) ==
    IF a = "google" THEN GoogleReadEnd(st, cause) ELSE ScannerReadEnd(st, cause)

StreamOpen ==
    /\ ppc # "exited"
    /\ ~ret
    /\ body # <<>> \/ bodyEnd = "open"

\* The producer reads the body and works out what this pass sends.
ProducerRead ==
    /\ ppc = "read"
    /\ \E o \in ReadOutcomes :
         \E p \in (IF o = "item" THEN ReadItem(adapter, pst, Head(body), ctxDone)
                   ELSE { ReadEnd(adapter, pst, o) }) :
            /\ body' = IF o = "item" THEN Tail(body) ELSE body
            /\ pending' = p.events
            /\ ret' = p.ret
            /\ pst' = p.pst
            /\ ppc' = IF p.events = <<>> /\ ~p.ret THEN "read" ELSE "send"
    /\ UNCHANGED <<adapter, bodyEnd, ctxDone, sch, schClosed, sent, cancelOpen>>
    /\ UNCHANGED <<sink, runnerVars, userVars, restVars>>

\* ch <- ev: blocks while the buffer is full.
ProducerSend ==
    /\ ppc = "send"
    /\ pending # <<>>
    /\ Len(sch) < ChanCap
    /\ sch' = Append(sch, Head(pending))
    /\ sent' = Append(sent, Head(pending))
    /\ pending' = Tail(pending)
    /\ ppc' = IF Tail(pending) = <<>> /\ ~ret THEN "read" ELSE "send"
    /\ UNCHANGED <<adapter, body, bodyEnd, ctxDone, ret, pst, schClosed, cancelOpen>>
    /\ UNCHANGED <<sink, runnerVars, userVars, restVars>>

\* The read function has returned: the deferred Body.Close() and close(ch).
ProducerClose ==
    /\ ppc = "send"
    /\ pending = <<>>
    /\ ret
    /\ schClosed' = TRUE
    /\ ppc' = "exited"
    /\ UNCHANGED <<adapter, body, bodyEnd, ctxDone, pending, ret, pst, sch, sent, cancelOpen>>
    /\ UNCHANGED <<sink, runnerVars, userVars, restVars>>

\* The consumer takes the next event off the channel.
Receive ==
    /\ sch # <<>>
    /\ sch' = Tail(sch)
    /\ UNCHANGED <<adapter, body, bodyEnd, ctxDone, ppc, pending, ret, pst, schClosed,
                   sent, cancelOpen>>
    /\ UNCHANGED <<sink, runnerVars, userVars, restVars>>

\* The caller cancels the context it passed to Stream.
Cancel ==
    /\ ~ctxDone
    /\ ctxDone' = TRUE
    /\ cancelOpen' = StreamOpen
    /\ UNCHANGED <<adapter, body, bodyEnd, ppc, pending, ret, pst, sch, schClosed, sent>>
    /\ UNCHANGED <<sink, runnerVars, userVars, restVars>>

StreamInit ==
    /\ adapter \in Adapters
    /\ body \in SeqsUpTo(ItemsOf(adapter), MaxLines)
    /\ bodyEnd \in {"eof", "error", "open"}
    /\ ctxDone = FALSE
    /\ ppc = "read"
    /\ pending = <<>>
    /\ ret = FALSE
    /\ pst = [started |-> FALSE, cur |-> "", acc |-> <<>>]
    /\ sch = <<>>
    /\ schClosed = FALSE
    /\ sent = <<>>
    /\ cancelOpen = FALSE
    /\ sink = NewSink(FALSE, FALSE)
    /\ RunnerIdle
    /\ UsersIdle
    /\ RestIdle

StreamNext ==
    \/ ProducerRead
    \/ ProducerSend
    \/ ProducerClose
    \/ Receive
    \/ Cancel

\* One stream of one adapter, from the 200 response to the closed channel.
SpecStream == StreamInit /\ [][StreamNext]_vars

\* The same with the scheduler's guarantee that the producer goroutine runs
\* whenever it can.
FairSpecStream ==
    SpecStream /\ WF_vars(ProducerRead) /\ WF_vars(ProducerSend) /\ WF_vars(ProducerClose)

----
\* Several goroutines sharing one Sink.  Every method takes the mutex for the
\* length of the call, so a call is one step; nothing holds the mutex from
\* BeginAIStream to EndAIStream.

MaxOps == 4

Producers == {"p1", "p2"}

Header == LogRecord("HEADER", <<>>)

\* The records a producer has handed to the sink while the log file is open.
Handed(s, rec) == IF s.logFile # "nil" THEN Append(handed, rec) ELSE handed

UserEmit ==
    /\ ops < MaxOps
    /\ \E p \in Producers, kind \in {EventCMD, EventERR} :
         /\ upc[p] = "idle"
         /\ sink' = Emit(sink, p, kind, <<"e">>)
         /\ handed' = Handed(sink, LogRecord(kind, <<"e">>))
    /\ ops' = ops + 1
    /\ UNCHANGED <<upc, utext>>
    /\ UNCHANGED <<runnerVars, streamVars, restVars>>

UserEmitLog ==
    /\ ops < MaxOps
    /\ \E p \in Producers :
         /\ upc[p] = "idle"
         /\ sink' = EmitLog(sink, EventOUT, <<"o">>)
         /\ handed' = Handed(sink, LogRecord(EventOUT, <<"o">>))
    /\ ops' = ops + 1
    /\ UNCHANGED <<upc, utext>>
    /\ UNCHANGED <<runnerVars, streamVars, restVars>>

UserBeginAIStream ==
    /\ ops < MaxOps
    /\ \E p \in Producers :
         /\ upc[p] = "idle"
         /\ sink' = BeginAIStream(sink, p)
         /\ upc' = [upc EXCEPT ![p] = "streaming"]
         /\ utext' = [utext EXCEPT ![p] = <<>>]
    /\ ops' = ops + 1
    /\ UNCHANGED handed
    /\ UNCHANGED <<runnerVars, streamVars, restVars>>

UserEmitAIChunk ==
    /\ ops < MaxOps
    /\ \E p \in Producers, text \in ChunkSet :
         /\ upc[p] = "streaming"
         /\ sink' = EmitAIChunk(sink, p, text)
         /\ utext' = [utext EXCEPT ![p] = @ \o text]
         /\ handed' = Handed(sink, LogRecord(EventAI, text))
    /\ ops' = ops + 1
    /\ UNCHANGED upc
    /\ UNCHANGED <<runnerVars, streamVars, restVars>>

UserEndAIStream ==
    /\ \E p \in Producers :
         /\ upc[p] = "streaming"
         /\ sink' = EndAIStream(sink, p, utext[p])
         /\ upc' = [upc EXCEPT ![p] = "idle"]
    /\ UNCHANGED <<utext, handed, ops>>
    /\ UNCHANGED <<runnerVars, streamVars, restVars>>

UserEmitFinal ==
    /\ ops < MaxOps
    /\ \E p \in Producers, text \in ChunkSet :
         /\ upc[p] = "idle"
         /\ sink' = EmitFinal(sink, p, text)
         /\ handed' = Handed(sink, LogRecord(EventAI, text))
    /\ ops' = ops + 1
    /\ UNCHANGED <<upc, utext>>
    /\ UNCHANGED <<runnerVars, streamVars, restVars>>

UserClose ==
    /\ ops < MaxOps
    /\ \A p \in Producers : upc[p] = "idle"
    /\ sink' = Close(sink)
    /\ ops' = ops + 1
    /\ UNCHANGED <<upc, utext, handed>>
    /\ UNCHANGED <<runnerVars, streamVars, restVars>>

\* A session: the sink is made and the header written before any producer runs.
SinkInit ==
    /\ \E silent \in BOOLEAN, logOn \in BOOLEAN : sink = WriteHeader(NewSink(silent, logOn))
    /\ upc = [p \in Producers |-> "idle"]
    /\ utext = [p \in Producers |-> <<>>]
    /\ handed = <<>>
    /\ ops = 0
    /\ RunnerIdle
    /\ StreamIdle
    /\ RestIdle

SinkNext ==
    \/ UserEmit
    \/ UserEmitLog
    \/ UserBeginAIStream
    \/ UserEmitAIChunk
    \/ UserEndAIStream
    \/ UserEmitFinal
    \/ UserClose

SpecSink == SinkInit /\ [][SinkNext]_vars

----
\* The sink's mutex.  A method is a call, the acquisition of s.mu, the body
\* and the deferred release; WriteHeader looks at s.logFile before it asks for
\* the mutex.

MaxLockOps == 3

Methods ==
    {"WriteHeader", "Emit", "EmitLog", "BeginAIStream", "EmitAIChunk", "EndAIStream",
     "EmitFinal", "Close", "LogPath", "IsSilent"}

At(m, at) == [m |-> m, at |-> at]

NotCalling == At("", "idle")

\* The value an unsynchronised read of s.logFile can give: the current one, or
\* the handle another goroutine's Close has since replaced by nil.
RacyLogFile(t) ==
    {sink.logFile} \cup (IF closers \ {t} # {} THEN {"open"} ELSE {})

\* WriteHeader below its nil check: Fprint on a handle that Close has made nil
\* writes nothing.
WriteHeaderLocked(s) ==
    IF s.logFile = "nil" THEN s ELSE [s EXCEPT !.log = Append(@, Header)]

MethodBody(m, s, t) ==
    CASE m = "WriteHeader" -> WriteHeaderLocked(s)
      [] m = "Emit" -> Emit(s, t, EventERR, <<"e">>)
      [] m = "EmitLog" -> EmitLog(s, EventOUT, <<"o">>)
      [] m = "BeginAIStream" -> BeginAIStream(s, t)
      [] m = "EmitAIChunk" -> EmitAIChunk(s, t, <<"a">>)
      [] m = "EndAIStream" -> EndAIStream(s, t, <<"a">>)
      [] m = "EmitFinal" -> EmitFinal(s, t, <<"a">>)
      [] m = "Close" -> Close(s)
      [] OTHER -> s

SinkCall ==
    /\ ops < MaxLockOps
    /\ \E t \in Producers, m \in Methods :
         /\ lpc[t] = NotCalling
         /\ lpc' = [lpc EXCEPT ![t] = At(m, IF m = "WriteHeader" THEN "check" ELSE "lock")]
    /\ ops' = ops + 1
    /\ UNCHANGED <<sink, mu, closers, upc, utext, handed>>
    /\ UNCHANGED <<runnerVars, streamVars, pureVars, authVars, toolVars, fileVars>>

\* output.go line 92: `if s.logFile == nil { return }`, before s.mu.Lock().
HeaderCheck ==
    /\ \E t \in Producers :
         /\ lpc[t] = At("WriteHeader", "check")
         /\ \E seen \in RacyLogFile(t) :
              lpc' = [lpc EXCEPT ![t] = IF seen = "nil" THEN NotCalling
                                       ELSE At("WriteHeader", "lock")]
    /\ UNCHANGED <<sink, mu, closers, userVars>>
    /\ UNCHANGED <<runnerVars, streamVars, pureVars, authVars, toolVars, fileVars>>

\* s.mu.Lock()
SinkLock ==
    /\ mu = "free"
    /\ \E t \in Producers :
         /\ lpc[t].at = "lock"
         /\ mu' = t
         /\ lpc' = [lpc EXCEPT ![t].at = "body"]
    /\ UNCHANGED <<sink, closers, userVars>>
    /\ UNCHANGED <<runnerVars, streamVars, pureVars, authVars, toolVars, fileVars>>

SinkBody ==
    /\ \E t \in Producers :
         /\ lpc[t].at = "body"
         /\ sink' = MethodBody(lpc[t].m, sink, t)
         /\ closers' = IF lpc[t].m = "Close" /\ sink.logFile # "nil"
                       THEN closers \cup {t} ELSE closers
         /\ lpc' = [lpc EXCEPT ![t].at = "unlock"]
    /\ UNCHANGED <<mu, userVars>>
    /\ UNCHANGED <<runnerVars, streamVars, pureVars, authVars, toolVars, fileVars>>

\* defer s.mu.Unlock()
SinkUnlock ==
    /\ \E t \in Producers :
         /\ lpc[t].at = "unlock"
         /\ mu' = "free"
         /\ lpc' = [lpc EXCEPT ![t] = NotCalling]
    /\ UNCHANGED <<sink, closers, userVars>>
    /\ UNCHANGED <<runnerVars, streamVars, pureVars, authVars, toolVars, fileVars>>

LockInit ==
    /\ \E silent \in BOOLEAN, logOn \in BOOLEAN : sink = NewSink(silent, logOn)
    /\ mu = "free"
    /\ lpc = [t \in Producers |-> NotCalling]
    /\ closers = {}
    /\ RunnerIdle
    /\ StreamIdle
    /\ UsersIdle
    /\ PureIdle
    /\ AuthIdle
    /\ ToolIdle
    /\ FileIdle

LockNext ==
    \/ SinkCall
    \/ HeaderCheck
    \/ SinkLock
    \/ SinkBody
    \/ SinkUnlock

\* Two goroutines calling the sink's methods.
SpecLock == LockInit /\ [][LockNext]_vars

----
\* The Anthropic reader on streams with tool_use blocks: the producer of
\* SpecStream, the whole body kept in arg.

AnthropicToolsInit ==
    /\ adapter = "anthropic"
    /\ body \in SeqsUpTo(AnthropicToolFrames, MaxLines + 1)
    /\ arg = body
    /\ out = NoResult
    /\ bodyEnd = "eof"
    /\ ctxDone = FALSE
    /\ ppc = "read"
    /\ pending = <<>>
    /\ ret = FALSE
    /\ pst = [started |-> FALSE, cur |-> "", acc |-> <<>>]
    /\ sch = <<>>
    /\ schClosed = FALSE
    /\ sent = <<>>
    /\ cancelOpen = FALSE
    /\ sink = NewSink(FALSE, FALSE)
    /\ RunnerIdle
    /\ UsersIdle
    /\ LockIdle
    /\ AuthIdle
    /\ ToolIdle
    /\ FileIdle

AnthropicToolsNext ==
    \/ ProducerRead
    \/ ProducerSend
    \/ ProducerClose
    \/ Receive

SpecAnthropicTools == AnthropicToolsInit /\ [][AnthropicToolsNext]_vars

----
\* The Copilot chat reader on streams whose chunks build up several tool
\* calls: the producer of SpecStream, the whole body kept in arg.
ChatToolLines ==
    { ChatLine("json", TRUE, <<"x">>, <<>>, ""),
      ChatLine("json", TRUE, <<>>, <<ChatDelta(0, 1, terminalToolName, <<"{">>)>>, ""),
      ChatLine("json", TRUE, <<>>, <<ChatDelta(0, NoID, "", <<"}">>)>>, ""),
      ChatLine("json", TRUE, <<>>, <<ChatDelta(1, 2, terminalToolName, <<"{}">>)>>, ""),
      ChatLine("json", TRUE, <<>>, <<>>, "tool_calls"),
      ChatLine("json", TRUE, <<>>, <<>>, "stop") }

ChatToolsInit ==
    /\ adapter = "copilot-chat"
    /\ body \in SeqsUpTo(ChatToolLines, MaxLines + 1)
    /\ arg = body
    /\ out = NoResult
    /\ bodyEnd = "eof"
    /\ ctxDone = FALSE
    /\ ppc = "read"
    /\ pending = <<>>
    /\ ret = FALSE
    /\ pst = [started |-> FALSE, cur |-> "", acc |-> <<>>]
    /\ sch = <<>>
    /\ schClosed = FALSE
    /\ sent = <<>>
    /\ cancelOpen = FALSE
    /\ sink = NewSink(FALSE, FALSE)
    /\ RunnerIdle
    /\ UsersIdle
    /\ LockIdle
    /\ AuthIdle
    /\ ToolIdle
    /\ FileIdle

SpecChatTools == ChatToolsInit /\ [][AnthropicToolsNext]_vars

----
\* The OAuth device-code flow (src/unnamed/part_002, DeviceAuth).  Time is in
\* milliseconds.

MaxPolls == 3

oauthPollingMarginMs == 500

Second == 1000

DeviceIntervals == {0, 1, 5}

\* What the token endpoint may answer: a token, the RFC 8628 errors with and
\* without an interval, a body with neither token nor error, a body that is
\* no JSON, a status other than 200.
TokenResponses ==
    { Resp(200, TRUE, "tok", "", 0),
      Resp(200, TRUE, "tok", "slow_down", 0),
      Resp(200, TRUE, "", "authorization_pending", 0),
      Resp(200, TRUE, "", "slow_down", 0),
      Resp(200, TRUE, "", "slow_down", 7),
      Resp(200, TRUE, "", "", 0),
      Resp(200, TRUE, "", "access_denied", 0),
      Resp(200, FALSE, "", "", 0),
      Resp(500, TRUE, "", "", 0) }

Max(a, b) == IF a >= b THEN a ELSE b

\* Lines 134-137: the first polling interval.
FirstInterval(di) == IF di * Second < Second THEN 5 * Second ELSE di * Second

WakeTimeNoMargin(from, iv) == from + iv

\* Line 143: time.After(interval + oauthPollingMarginMs).
WakeTime(from, iv) == from + iv + oauthPollingMarginMs

Decision(res, iv) == [ret |-> res, interval |-> iv]

PollDecisionIgnoresErrors(r, iv, di) ==
    IF r.status # 200 THEN Decision(Ret("error", "token request failed"), iv)
    ELSE IF ~r.json THEN Decision(Ret("error", "parsing token response"), iv)
    ELSE IF r.access_token # "" THEN Decision(Ret("token", r.access_token), iv)
    ELSE IF r.error = "slow_down"
         THEN Decision(Ret("none", ""),
                       (IF r.interval > 0 THEN r.interval ELSE di + 5) * Second)
    ELSE Decision(Ret("none", ""), iv)

\* Lines 165-203: what DeviceAuth does with a token response.
PollDecision(r, iv, di) ==
    IF r.status # 200 THEN Decision(Ret("error", "token request failed"), iv)
    ELSE IF ~r.json THEN Decision(Ret("error", "parsing token response"), iv)
    ELSE IF r.access_token # "" THEN Decision(Ret("token", r.access_token), iv)
    ELSE CASE r.error = "authorization_pending" -> Decision(Ret("none", ""), iv)
           [] r.error = "slow_down" ->
                Decision(Ret("none", ""),
                         (IF r.interval > 0 THEN r.interval ELSE di + 5) * Second)
           [] r.error = "" -> Decision(Ret("none", ""), iv)
           [] OTHER -> Decision(Ret("error", r.error), iv)

DoPollIgnoresContext(cancelled, r, iv, di) == PollDecision(r, iv, di)

\* Lines 147-203: one token poll.  http.DefaultClient.Do fails on a request
\* whose context is cancelled.
DoPoll(cancelled, r, iv, di) ==
    IF cancelled THEN Decision(Ret("error", "token poll"), iv)
    ELSE PollDecision(r, iv, di)

\* Lines 85-137: the device-code request and the instructions to the user.
DeviceRequest ==
    /\ apc = "device"
    /\ \E ok \in BOOLEAN, di \in DeviceIntervals :
         IF authCtxDone \/ ~ok
         THEN /\ authRet' = Ret("error", "device code request")
              /\ apc' = "returned"
              /\ UNCHANGED <<interval, deviceInterval, sleepFrom>>
         ELSE /\ deviceInterval' = di
              /\ interval' = FirstInterval(di)
              /\ sleepFrom' = now
              /\ apc' = "sleep"
              /\ UNCHANGED authRet
    /\ UNCHANGED <<now, pollAt, polls, tokenData, authCtxDone>>
    /\ UNCHANGED notAuth

\* Lines 140-145, the timer's case of the select: the sleep is over and the
\* next poll starts.
AuthWake ==
    /\ apc = "sleep"
    /\ polls < MaxPolls
    /\ \E late \in {0, 100} :
         now' = Max(now, WakeTime(sleepFrom, interval)) + late
    /\ pollAt' = now'
    /\ polls' = polls + 1
    /\ apc' = "poll"
    /\ UNCHANGED <<interval, deviceInterval, sleepFrom, tokenData, authRet, authCtxDone>>
    /\ UNCHANGED notAuth

\* Lines 141-142, the other case: `case <-ctx.Done(): return nil, ctx.Err()`.
AuthAbort ==
    /\ apc = "sleep"
    /\ authCtxDone
    /\ authRet' = Ret("error", "context canceled")
    /\ apc' = "returned"
    /\ UNCHANGED <<interval, deviceInterval, now, sleepFrom, pollAt, polls, tokenData,
                   authCtxDone>>
    /\ UNCHANGED notAuth

\* Lines 147-203: the poll request, its response and the decision.
AuthPoll ==
    /\ apc = "poll"
    /\ \E r \in TokenResponses, took \in {0, 200} :
              LET d == DoPoll(authCtxDone, r, interval, deviceInterval) IN
                /\ tokenData' = IF authCtxDone THEN tokenData ELSE r
                /\ now' = now + took
                /\ sleepFrom' = now'
                /\ interval' = d.interval
                /\ authRet' = d.ret
                /\ apc' = IF d.ret.kind = "none" THEN "sleep" ELSE "returned"
    /\ UNCHANGED <<deviceInterval, pollAt, polls, authCtxDone>>
    /\ UNCHANGED notAuth

\* The caller cancels the context.
AuthCancel ==
    /\ apc # "returned"
    /\ ~authCtxDone
    /\ authCtxDone' = TRUE
    /\ UNCHANGED <<apc, interval, deviceInterval, now, sleepFrom, pollAt, polls, tokenData,
                   authRet>>
    /\ UNCHANGED notAuth

AuthInit ==
    /\ apc = "device"
    /\ interval = 0
    /\ deviceInterval = 0
    /\ now = 0
    /\ sleepFrom = 0
    /\ pollAt = -1
    /\ polls = 0
    /\ tokenData = Resp(0, FALSE, "", "", 0)
    /\ authRet = Ret("none", "")
    /\ authCtxDone = FALSE
    /\ sink = NewSink(FALSE, FALSE)
    /\ RunnerIdle
    /\ StreamIdle
    /\ UsersIdle
    /\ LockIdle
    /\ PureIdle
    /\ ToolIdle
    /\ FileIdle

AuthNext ==
    \/ DeviceRequest
    \/ AuthWake
    \/ AuthAbort
    \/ AuthPoll
    \/ AuthCancel

SpecAuth == AuthInit /\ [][AuthNext]_vars

\* The same with the goroutine that runs DeviceAuth scheduled fairly.
FairSpecAuth ==
    SpecAuth /\ WF_vars(DeviceRequest) /\ WF_vars(AuthWake) /\ WF_vars(AuthAbort)
             /\ WF_vars(AuthPoll)

----
\* Settings maps (map[string]string) are functions from the keys they hold;
\* the empty string is a value like any other.

Keys == {"model", "endpoint"}

EmptyMap == [k \in {} |-> ""]

MapsOver(ks, values) == UNION { [D -> values] : D \in SUBSET ks }

Sources == <<"defaults", "env", "file", "agent", "cli">>

applyKeepsEarlier(merged, values) ==
    [k \in DOMAIN merged \cup DOMAIN values |->
        IF k \in DOMAIN merged THEN merged[k] ELSE values[k]]

\* part_009 lines 6-10: `for key, value := range values { merged[key] = value }`.
apply(merged, values) ==
    [k \in DOMAIN merged \cup DOMAIN values |->
        IF k \in DOMAIN values THEN values[k] ELSE merged[k]]

\* part_009 lines 4-19.
MergePrecedence(defaults, env, file, agent, cli) ==
    apply(apply(apply(apply(apply(EmptyMap, defaults), env), file), agent), cli)

MergeInit ==
    /\ arg \in [defaults : MapsOver(Keys, {"defaults", ""}),
                env : MapsOver(Keys, {"env", ""}),
                file : MapsOver(Keys, {"file", ""}),
                agent : MapsOver(Keys, {"agent", ""}),
                cli : MapsOver(Keys, {"cli", ""})]
    /\ out = NoResult
    /\ sink = NewSink(FALSE, FALSE)
    /\ RunnerIdle
    /\ StreamIdle
    /\ UsersIdle
    /\ LockIdle
    /\ AuthIdle
    /\ ToolIdle
    /\ FileIdle

Merge ==
    /\ ~out.has
    /\ out' = Result(MergePrecedence(arg.defaults, arg.env, arg.file, arg.agent, arg.cli))
    /\ UNCHANGED arg
    /\ UNCHANGED <<sink, runnerVars, streamVars, userVars, lockVars, authVars, toolVars, fileVars>>

MergeNext == Merge

SpecMerge == MergeInit /\ [][MergeNext]_vars

----
\* The config file (src/internal/config/config.go).  A string is a sequence
\* of characters, the file a sequence of lines.  Keys and values here hold no
\* newline and no single quote.

MaxKeyLen == 2

KeyChars == {"a", "=", "#", " "}

RECURSIVE TrimLeft(_)
TrimLeft(s) == IF s # <<>> /\ Head(s) = " " THEN TrimLeft(Tail(s)) ELSE s

RECURSIVE TrimRight(_)
TrimRight(s) ==
    IF s # <<>> /\ s[Len(s)] = " " THEN TrimRight(SubSeq(s, 1, Len(s) - 1)) ELSE s

TrimSpace(s) == TrimRight(TrimLeft(s))

\* The keys Set accepts (lines 74-76): those that are not blank.
KeyStrings == { k \in SeqsUpTo(KeyChars, MaxKeyLen) : TrimSpace(k) # <<>> }

ValueStrings == { <<>>, <<"v">>, <<"\"">>, <<"\\">>, <<" ", "v", " ">>, <<"=", "#">> }

\* The byte of a character, for sort.Strings.
Byte(c) ==
    CASE c = " " -> 32 [] c = "\"" -> 34 [] c = "#" -> 35 [] c = "=" -> 61
      [] c = "\\" -> 92 [] c = "a" -> 97 [] OTHER -> 118

RECURSIVE StringLess(_, _)
StringLess(x, y) ==
    IF y = <<>> THEN FALSE
    ELSE IF x = <<>> THEN TRUE
    ELSE IF Head(x) # Head(y) THEN Byte(Head(x)) < Byte(Head(y))
    ELSE StringLess(Tail(x), Tail(y))

\* save lines 93-97: the keys in the order of sort.Strings.
RECURSIVE SortStrings(_)
SortStrings(S) ==
    IF S = {} THEN <<>>
    ELSE LET least == CHOOSE x \in S : \A y \in S \ {x} : StringLess(x, y)
         IN <<least>> \o SortStrings(S \ {least})

\* strconv.Quote on these characters: the quote and the backslash are escaped.
RECURSIVE QuoteBody(_)
QuoteBody(v) ==
    IF v = <<>> THEN <<>>
    ELSE (IF Head(v) \in {"\"", "\\"} THEN <<"\\", Head(v)>> ELSE <<Head(v)>>)
         \o QuoteBody(Tail(v))

Quote(v) == <<"\"">> \o QuoteBody(v) \o <<"\"">>

\* The inside of a double-quoted literal: a backslash takes the character
\* after it, a bare quote is a syntax error.
RECURSIVE UnquoteBody(_)
UnquoteBody(b) ==
    IF b = <<>> THEN Ok(<<>>)
    ELSE IF Head(b) = "\""  THEN Fail(<<"invalid syntax">>, <<>>)
    ELSE IF Head(b) = "\\"
         THEN IF Len(b) >= 2 /\ b[2] \in {"\"", "\\"}
              THEN LET r == UnquoteBody(Tail(Tail(b)))
                   IN IF r.err # <<>> THEN r ELSE Ok(<<b[2]>> \o r.val)
              ELSE Fail(<<"invalid syntax">>, <<>>)
    ELSE LET r == UnquoteBody(Tail(b))
         IN IF r.err # <<>> THEN r ELSE Ok(<<Head(b)>> \o r.val)

\* strconv.Unquote of a string that starts with a double quote.
Unquote(raw) ==
    IF Len(raw) < 2 \/ raw[Len(raw)] # "\"" THEN Fail(<<"invalid syntax">>, <<>>)
    ELSE UnquoteBody(SubSeq(raw, 2, Len(raw) - 1))

\* save lines 99-105: one line per key.
saveLine(key, value) == key \o <<" ", "=", " ">> \o Quote(value)

\* save lines 87-109: the lines of the file written for a map.
save(values) ==
    LET keys == SortStrings(DOMAIN values)
    IN [i \in 1..Len(keys) |-> saveLine(keys[i], values[keys[i]])]

Parsed(kind, key, value) == [kind |-> kind, key |-> key, value |-> value]

\* Load lines 42-62: one line of the file.
loadLine(text) ==
    LET line == TrimSpace(text)
        eqs == { p \in 1..Len(line) : line[p] = "=" }
    IN IF line = <<>> \/ Head(line) = "#" THEN Parsed("skip", <<>>, <<>>)
       ELSE IF eqs = {} THEN Parsed("error", <<>>, <<>>)
       ELSE LET p == CHOOSE q \in eqs : \A r \in eqs : q <= r
                key == TrimSpace(SubSeq(line, 1, p - 1))
                rawValue == TrimSpace(SubSeq(line, p + 1, Len(line)))
            IN IF key = <<>> THEN Parsed("error", <<>>, <<>>)
               ELSE IF rawValue # <<>> /\ Head(rawValue) = "\""
                    THEN LET u == Unquote(rawValue)
                         IN IF u.err # <<>> THEN Parsed("error", <<>>, <<>>)
                            ELSE Parsed("pair", key, u.val)
               ELSE Parsed("pair", key, rawValue)

Loaded(err, values) == [err |-> err, values |-> values]

\* Load lines 37-67: the loop over the lines, values[key] = value.
RECURSIVE loadLines(_, _)
loadLines(lines, values) ==
    IF lines = <<>> THEN Loaded(FALSE, values)
    ELSE LET l == loadLine(Head(lines))
         IN CASE l.kind = "error" -> Loaded(TRUE, EmptyMap)
              [] l.kind = "skip" -> loadLines(Tail(lines), values)
              [] OTHER ->
                   loadLines(Tail(lines),
                             [k \in DOMAIN values \cup {l.key} |->
                                 IF k = l.key THEN l.value ELSE values[k]])

\* Load lines 26-70.
Load(lines) == loadLines(lines, EmptyMap)

\* The settings maps written: the empty one and those of one or two keys.
ConfigMaps ==
    {EmptyMap}
    \cup { [k \in {x, y} |-> IF k = x THEN v ELSE w] :
             x \in KeyStrings, y \in KeyStrings, v \in ValueStrings, w \in ValueStrings }

ConfigInit ==
    /\ arg \in ConfigMaps
    /\ out = NoResult
    /\ sink = NewSink(FALSE, FALSE)
    /\ RunnerIdle
    /\ StreamIdle
    /\ UsersIdle
    /\ LockIdle
    /\ AuthIdle
    /\ ToolIdle
    /\ FileIdle

\* The map is written by save and read back by Load.
SaveThenLoad ==
    /\ ~out.has
    /\ out' = Result(Load(save(arg)))
    /\ UNCHANGED arg
    /\ UNCHANGED <<sink, runnerVars, streamVars, userVars, lockVars, authVars, toolVars, fileVars>>

ConfigNext == SaveThenLoad

SpecConfig == ConfigInit /\ [][ConfigNext]_vars

----
\* Provider resolution (src/unnamed/part_004, Resolve).  A settings value is a
\* sequence of tokens, " " being a blank.

ErrNoProvider == "NO_PROVIDER"
ErrAuthRequired == "AUTH_REQUIRED"
ErrModelRequired == "MODEL_REQUIRED"
ErrCopilotToken == "GitHub Copilot token required"

\* cfg[k]: the empty string for a key the map does not hold.
Get(cfg, k) == IF k \in DOMAIN cfg THEN cfg[k] ELSE <<>>

\* strings.Contains(endpoint, word)
ContainsWord(s, word) == \E p \in 1..Len(s) : s[p] = word

Provider(err, kind, model) == [err |-> err, adapter |-> kind, model |-> model, baseURL |-> <<>>]

defaultCopilotBaseURL == <<"https://", "api.githubcopilot.com">>

\* strings.TrimRight(s, "/")
TrimSlashes(s) ==
    IF \E p \in 1..Len(s) : s[p] # "/"
    THEN SubSeq(s, 1, CHOOSE p \in 1..Len(s) : s[p] # "/" /\ \A q \in (p + 1)..Len(s) : s[q] = "/")
    ELSE <<>>

\* NormalizeDomain (src/unnamed/part_002, lines 36-53): the host name of the
\* URL, a scheme put in front when there is none.
NormalizeDomain(input) ==
    LET t == TrimSpace(input)
        u == IF ContainsWord(t, "https://") THEN t ELSE <<"https://">> \o t
        host == IF Len(u) >= 2 /\ u[1] = "https://" /\ u[2] \notin {"/", " ", "https://"}
                THEN <<u[2]>> ELSE <<>>
    IN IF t = <<>> THEN <<>>
       ELSE IF host = <<>> THEN TrimSlashes(u)
       ELSE host

CopilotBaseURLRaw(enterpriseURL) ==
    IF enterpriseURL = <<>> \/ enterpriseURL = <<"github.com">> THEN defaultCopilotBaseURL
    ELSE <<"https://", "copilot-api.">> \o enterpriseURL

\* CopilotBaseURL (src/unnamed/part_002, lines 58-67)
CopilotBaseURL(enterpriseURL) ==
    LET domain == NormalizeDomain(enterpriseURL)
    IN IF enterpriseURL = <<>> THEN defaultCopilotBaseURL
       ELSE IF domain = <<>> \/ domain = <<"github.com">> THEN defaultCopilotBaseURL
       ELSE <<"https://", "copilot-api.">> \o domain

newOpenAIProviderModelFirst(endpoint, apiKey, model) ==
    IF model = <<>> THEN Provider(ErrModelRequired, "", <<>>)
    ELSE IF apiKey = <<>> THEN Provider(ErrAuthRequired, "", <<>>)
    ELSE Provider("", "openai", model)

newOpenAIProvider(endpoint, apiKey, model) ==
    IF apiKey = <<>> THEN Provider(ErrAuthRequired, "", <<>>)
    ELSE IF model = <<>> THEN Provider(ErrModelRequired, "", <<>>)
    ELSE Provider("", "openai", model)

newAnthropicProvider(endpoint, apiKey, model) ==
    IF apiKey = <<>> THEN Provider(ErrAuthRequired, "", <<>>)
    ELSE IF model = <<>> THEN Provider(ErrModelRequired, "", <<>>)
    ELSE Provider("", "anthropic", model)

newGoogleProvider(endpoint, apiKey, model) ==
    IF apiKey = <<>> THEN Provider(ErrAuthRequired, "", <<>>)
    ELSE IF model = <<>> THEN Provider(ErrModelRequired, "", <<>>)
    ELSE Provider("", "google", model)

newCopilotProvider(cfg, providerID) ==
    LET t1 == Get(cfg, "api-key")
        t2 == IF t1 = <<>> THEN Get(cfg, "api_key") ELSE t1
        token == IF t2 = <<>> THEN Get(cfg, "copilot-token") ELSE t2
        e1 == Get(cfg, "enterprise-url")
        enterpriseURL == IF providerID # <<"github-copilot-enterprise">> THEN <<>>
                         ELSE IF e1 = <<>> THEN Get(cfg, "enterprise_url") ELSE e1
        model == Get(cfg, "model")
    IN IF token = <<>> THEN Provider(ErrCopilotToken, "", <<>>)
       ELSE [Provider("", "copilot", IF model = <<>> THEN <<"gpt-5-mini">> ELSE model)
               EXCEPT !.baseURL = CopilotBaseURL(enterpriseURL)]

CopilotVariants == { <<"github-copilot">>, <<"github-copilot-enterprise">> }

Resolve(cfg) ==
    LET explicit == TrimSpace(Get(cfg, "provider"))
        endpoint == TrimSpace(Get(cfg, "endpoint"))
        k1 == Get(cfg, "api-key")
        apiKey == IF k1 = <<>> THEN Get(cfg, "api_key") ELSE k1
        model == Get(cfg, "model")
    IN IF explicit \in CopilotVariants THEN newCopilotProvider(cfg, explicit)
       ELSE IF endpoint = <<>> THEN Provider(ErrNoProvider, "", <<>>)
       ELSE IF ContainsWord(endpoint, "anthropic")
            THEN newAnthropicProvider(endpoint, apiKey, model)
       ELSE IF ContainsWord(endpoint, "generativelanguage.googleapis.com")
            THEN newGoogleProvider(endpoint, apiKey, model)
       ELSE newOpenAIProvider(endpoint, apiKey, model)

KeyChoices == { <<>>, <<"sk-test">>, <<" ">> }

ResolveChoices ==
    ("provider" :> { <<>>, <<"openai">>, <<"github-copilot">>,
                     <<" ", "github-copilot-enterprise">> })
    @@ ("endpoint" :> { <<>>, <<" ">>, <<"https://api.", "openai", ".com/v1">>,
                        <<"https://api.", "anthropic", ".com">>,
                        <<"https://", "generativelanguage.googleapis.com">> })
    @@ ("api-key" :> KeyChoices)
    @@ ("api_key" :> KeyChoices)
    @@ ("model" :> { <<>>, <<"m">> })

\* The settings Resolve is given: each key absent or with one of its values.
Settings(choices) ==
    UNION { { m \in [D -> UNION { choices[k] : k \in D }] : \A k \in D : m[k] \in choices[k] } :
            D \in SUBSET DOMAIN choices }

ResolveInit ==
    /\ arg \in Settings(ResolveChoices)
    /\ out = NoResult
    /\ sink = NewSink(FALSE, FALSE)
    /\ RunnerIdle
    /\ StreamIdle
    /\ UsersIdle
    /\ LockIdle
    /\ AuthIdle
    /\ ToolIdle
    /\ FileIdle

DoResolve ==
    /\ ~out.has
    /\ out' = Result(Resolve(arg))
    /\ UNCHANGED arg
    /\ UNCHANGED <<sink, runnerVars, streamVars, userVars, lockVars, authVars, toolVars, fileVars>>

ResolveNext == DoResolve

SpecResolve == ResolveInit /\ [][ResolveNext]_vars

\* Resolve on settings that name a Copilot provider.
TokenChoices == { <<>>, <<"gho_test">> }

EnterpriseChoices == { <<>>, <<"company.ghe.com">>, <<"https://", "company.ghe.com", "/">>,
                       <<"github.com">> }

CopilotChoices ==
    ("provider" :> { <<"github-copilot">>, <<"github-copilot-enterprise">>,
                     <<" ", "github-copilot-enterprise">> })
    @@ ("api-key" :> TokenChoices)
    @@ ("api_key" :> TokenChoices)
    @@ ("copilot-token" :> TokenChoices)
    @@ ("enterprise-url" :> EnterpriseChoices)
    @@ ("enterprise_url" :> { <<>>, <<"company.ghe.com">> })
    @@ ("model" :> { <<>>, <<"m">> })

CopilotInit ==
    /\ arg \in Settings(CopilotChoices)
    /\ out = NoResult
    /\ sink = NewSink(FALSE, FALSE)
    /\ RunnerIdle
    /\ StreamIdle
    /\ UsersIdle
    /\ LockIdle
    /\ AuthIdle
    /\ ToolIdle
    /\ FileIdle

SpecCopilotResolve == CopilotInit /\ [][ResolveNext]_vars

\* copilotProvider.setHeaders (src/unnamed/part_004, lines 550-556): the
\* headers of every request the Copilot adapter makes, whatever the request's
\* messages are.
copilotSetHeaders(token, reqMessages) ==
    [h \in {"Content-Type", "Authorization", "User-Agent", "Openai-Intent", "x-initiator"} |->
        CASE h = "Content-Type" -> <<"application/json">>
          [] h = "Authorization" -> <<"Bearer ">> \o token
          [] h = "User-Agent" -> <<"rai/0.1.0">>
          [] h = "Openai-Intent" -> <<"conversation-edits">>
          [] h = "x-initiator" -> <<"user">>]

----
\* One terminal command (src/unnamed/part_007, runTerminalCommand, lines
\* 281-305).  Time is in seconds.  The command runs under
\* context.WithTimeout(context.Background(), 30*time.Second); the session's
\* context is not among the arguments of executeToolCall or runTerminalCommand.

commandTimeout == 30

\* How long the command takes when nothing stops it, and whether it exits 0.
Durations == {0, 1, 29, 30, 31, 45}

\* Line 283: ctx is done once 30 s have passed.
DeadlineReached(clock) == clock >= commandTimeout

\* Line 296: output, err := cmd.CombinedOutput()
ToolStart ==
    /\ tpc = "idle"
    /\ tpc' = "running"
    /\ UNCHANGED <<tclock, tdur, orphan, sessDone, tret>>
    /\ UNCHANGED <<sink, runnerVars, streamVars, userVars, lockVars, pureVars, authVars, fileVars>>

\* A second passes while CombinedOutput waits: for the shell before the
\* deadline, for the end of the output pipe after it.
ToolTick ==
    /\ tpc = "running"
    /\ tclock < tdur
    /\ ~DeadlineReached(tclock) \/ orphan
    /\ tclock' = tclock + 1
    /\ UNCHANGED <<tpc, tdur, orphan, sessDone, tret>>
    /\ UNCHANGED <<sink, runnerVars, streamVars, userVars, lockVars, pureVars, authVars, fileVars>>

\* The command, and whatever it started, has ended; lines 297-303.
ToolExit ==
    /\ tpc = "running"
    /\ tclock = tdur
    /\ tpc' = "returned"
    /\ \E status \in {"zero", "nonzero"} :
         tret' = IF DeadlineReached(tclock) THEN "command timed out"
                 ELSE IF status = "nonzero" THEN "command failed"
                 ELSE "ok"
    /\ UNCHANGED <<tclock, tdur, orphan, sessDone>>
    /\ UNCHANGED <<sink, runnerVars, streamVars, userVars, lockVars, pureVars, authVars, fileVars>>

\* The deadline passes: exec kills the shell; its output pipe is at its end
\* when no other process holds it, CombinedOutput returns and line 297 sees
\* context.DeadlineExceeded.  cmd.WaitDelay is not set, so with another holder
\* CombinedOutput reads on until that process is gone.
ToolTimeout ==
    /\ tpc = "running"
    /\ DeadlineReached(tclock)
    /\ ~orphan
    /\ tpc' = "returned"
    /\ tret' = "command timed out"
    /\ UNCHANGED <<tclock, tdur, orphan, sessDone>>
    /\ UNCHANGED <<sink, runnerVars, streamVars, userVars, lockVars, pureVars, authVars, fileVars>>

\* The caller of Run cancels the session's context.
SessionCancel ==
    /\ ~sessDone
    /\ sessDone' = TRUE
    /\ UNCHANGED <<tpc, tclock, tdur, orphan, tret>>
    /\ UNCHANGED <<sink, runnerVars, streamVars, userVars, lockVars, pureVars, authVars, fileVars>>

ToolInit ==
    /\ tpc = "idle"
    /\ tclock = 0
    /\ tdur \in Durations
    /\ orphan \in BOOLEAN
    /\ sessDone = FALSE
    /\ tret = ""
    /\ sink = NewSink(FALSE, FALSE)
    /\ RunnerIdle
    /\ StreamIdle
    /\ UsersIdle
    /\ LockIdle
    /\ PureIdle
    /\ AuthIdle
    /\ FileIdle

ToolNext ==
    \/ ToolStart
    \/ ToolTick
    \/ ToolExit
    \/ ToolTimeout
    \/ SessionCancel

SpecTool == ToolInit /\ [][ToolNext]_vars

\* The same with time passing and the goroutine in CombinedOutput running.
FairSpecTool == SpecTool /\ WF_vars(ToolStart \/ ToolTick \/ ToolExit \/ ToolTimeout)

----
\* runPrompt from the merged configuration on (src/unnamed/part_001, lines
\* 205-246): the stored Copilot token is loaded, the provider resolved and the
\* session run.  stored is what LoadCopilotToken returns, sessionFails whether
\* session.Run returns an error.
runPrompt(merged, stored, sessionFails) ==
    LET provID == Get(merged, "provider")
        withToken == IF /\ provID \in CopilotVariants
                        /\ Get(merged, "api-key") = <<>>
                        /\ Get(merged, "api_key") = <<>>
                        /\ stored # <<>>
                     THEN [k \in DOMAIN merged \cup {"api-key"} |->
                              IF k = "api-key" THEN stored ELSE merged[k]]
                     ELSE merged
        prov == Resolve(withToken)
    IN IF prov.err # ""
       THEN [exit |-> 0, err |-> prov.err, final |-> <<"prompt: ", "prompt">>, ran |-> FALSE]
       ELSE [exit |-> IF sessionFails THEN 1 ELSE 0, err |-> "", final |-> <<>>, ran |-> TRUE]

DoRunPrompt ==
    /\ ~out.has
    /\ \E stored \in TokenChoices, sessionFails \in BOOLEAN :
          out' = Result(runPrompt(arg, stored, sessionFails))
    /\ UNCHANGED arg
    /\ UNCHANGED <<sink, runnerVars, streamVars, userVars, lockVars, authVars, toolVars, fileVars>>

PromptNext == DoRunPrompt

SpecPrompt == ResolveInit /\ [][PromptNext]_vars

----
\* The session log file with HTTP debug capture (src/internal/output/output.go
\* and src/unnamed/part_003).  The sink writes through the descriptor os.Create
\* gave it, which is not in append mode: a write lands at the descriptor's own
\* offset.  debugTransport.appendBlock opens the same path with O_APPEND for
\* each block and writes a blank line, the title and the payload.  Both are
\* called from the goroutine that runs the session.

MaxFileOps == 4

Unit(by, text) == [by |-> by, text |-> text]

\* write(2) at offset off of a descriptor without O_APPEND.
WriteAt(f, off, u) ==
    IF off < Len(f) THEN [f EXCEPT ![off + 1] = u] ELSE Append(f, u)

\* strings.EqualFold(cfg["_log_level"], "DEBUG")
LogLevels == { "", "DEBUG", "debug", "INFO" }

LogPaths == { <<>>, <<" ">>, <<".rai/log/rai-log.log">> }

\* maybeEnableHTTPDebug (part_003, lines 100-116): whether the client's
\* Transport becomes a debugTransport.
maybeEnableHTTPDebug(level, logPath) ==
    level \in {"DEBUG", "debug"} /\ TrimSpace(logPath) # <<>>

\* A sink method that writes a record: s.mu.Lock()
LogLock ==
    /\ dpc.at = "idle"
    /\ mu = "free"
    /\ fops < MaxFileOps
    /\ mu' = By
    /\ dpc' = Pos("locked", "", 0)
    /\ fops' = fops + 1
    /\ UNCHANGED <<disk, sinkOff, installed, lpc, closers>>
    /\ UNCHANGED <<sink, runnerVars, streamVars, userVars, pureVars, authVars, toolVars, sessVars>>

\* fmt.Fprintf(s.logFile, ...)
LogWrite ==
    /\ dpc.at = "locked"
    /\ disk' = WriteAt(disk, sinkOff, Unit("sink", <<"record", fops>>))
    /\ sinkOff' = sinkOff + 1
    /\ dpc' = Pos("wrote", "", 0)
    /\ UNCHANGED <<installed, fops, lockVars>>
    /\ UNCHANGED <<sink, runnerVars, streamVars, userVars, pureVars, authVars, toolVars, sessVars>>

\* defer s.mu.Unlock()
LogUnlock ==
    /\ dpc.at = "wrote"
    /\ mu' = "free"
    /\ dpc' = Pos("idle", "", 0)
    /\ UNCHANGED <<disk, sinkOff, installed, fops, lpc, closers>>
    /\ UNCHANGED <<sink, runnerVars, streamVars, userVars, pureVars, authVars, toolVars, sessVars>>

\* debugTransport.RoundTrip: the request block is due.
DebugRoundTrip ==
    /\ dpc.at = "idle"
    /\ installed
    /\ fops < MaxFileOps
    /\ dpc' = Pos("block", "request", 0)
    /\ fops' = fops + 1
    /\ UNCHANGED <<disk, sinkOff, installed, lockVars>>
    /\ UNCHANGED <<sink, runnerVars, streamVars, userVars, pureVars, authVars, toolVars, sessVars>>

\* appendBlock: one of its three Fprint calls on the O_APPEND descriptor.  The
\* response block follows the request block; RoundTrip returns after it.
DebugFprint ==
    /\ dpc.at = "block"
    /\ disk' = Append(disk, Unit("debug", <<dpc.title, dpc.n>>))
    /\ dpc' = IF dpc.n < 2 THEN Pos("block", dpc.title, dpc.n + 1)
              ELSE IF dpc.title = "request" THEN Pos("block", "response", 0)
              ELSE Pos("idle", "", 0)
    /\ UNCHANGED <<sinkOff, installed, fops, lockVars>>
    /\ UNCHANGED <<sink, runnerVars, streamVars, userVars, pureVars, authVars, toolVars, sessVars>>

\* NewSink has created the file; the provider's client has been through
\* maybeEnableHTTPDebug with some _log_level and _log_path.
DebugLogInit ==
    /\ disk = <<>>
    /\ sinkOff = 0
    /\ dpc = Pos("idle", "", 0)
    /\ \E level \in LogLevels, logPath \in LogPaths :
          installed = maybeEnableHTTPDebug(level, logPath)
    /\ fops = 0
    /\ SessIdle
    /\ sink = NewSink(FALSE, TRUE)
    /\ RunnerIdle
    /\ StreamIdle
    /\ UsersIdle
    /\ LockIdle
    /\ PureIdle
    /\ AuthIdle
    /\ ToolIdle

DebugLogNext ==
    \/ LogLock
    \/ LogWrite
    \/ LogUnlock
    \/ DebugRoundTrip
    \/ DebugFprint

SpecDebugLog == DebugLogInit /\ [][DebugLogNext]_vars

----
\* runPrompt up to the session (src/unnamed/part_001, lines 141-184): NewSink,
\* the agent file's warnings emitted as ERR records, then WriteHeader; the
\* session follows.
MaxWarnings == 2

RECURSIVE EmitWarnings(_, _)
EmitWarnings(s, n) ==
    IF n = 0 THEN s ELSE EmitWarnings(Emit(s, By, EventERR, <<"warning">>), n - 1)

\* Lines 153-165: agent.ParseFile and `sink.Emit(output.EventERR, w)` for each
\* of its warnings; without -agent there is none.
LoadAgent ==
    /\ pc = "agent"
    /\ \E n \in 0..MaxWarnings :
          sink' = EmitWarnings(sink, n)
    /\ pc' = "header"
    /\ trace' = Step("Agent", FALSE)
    /\ UNCHANGED <<iter, messages, ch, fullText, reasoningSummary, toolCalls, streamingAI,
                   tcIdx, result, script, streamCalls, lastReq>>
    /\ UNCHANGED <<streamVars, userVars, restVars>>

\* Line 184: sink.WriteHeader(headerArgs, ag.SystemPrompt, p.Prompt)
PromptHeader ==
    /\ pc = "header"
    /\ sink' = WriteHeader(sink)
    /\ pc' = "loop"
    /\ trace' = Step("Header", FALSE)
    /\ UNCHANGED <<iter, messages, ch, fullText, reasoningSummary, toolCalls, streamingAI,
                   tcIdx, result, script, streamCalls, lastReq>>
    /\ UNCHANGED <<streamVars, userVars, restVars>>

PromptRunInit ==
    /\ \E silent \in BOOLEAN, logOn \in BOOLEAN : sink = NewSink(silent, logOn)
    /\ script \in Scripts
    /\ pc = "agent"
    /\ iter = 0
    /\ messages = buildMessages
    /\ ch = <<>>
    /\ fullText = <<>>
    /\ reasoningSummary = <<>>
    /\ toolCalls = <<>>
    /\ streamingAI = FALSE
    /\ tcIdx = 0
    /\ result = "none"
    /\ streamCalls = 0
    /\ lastReq = <<>>
    /\ trace = Step("Init", FALSE)
    /\ StreamIdle
    /\ UsersIdle
    /\ RestIdle

PromptRunNext ==
    \/ LoadAgent
    \/ PromptHeader
    \/ RunnerNext

SpecPromptRun == PromptRunInit /\ [][PromptRunNext]_vars

----
\* The two Responses-API readers run over a whole body: the events the loop
\* sends until a pass returns or the lines run out (scanner.Err() is nil at
\* the end of the body).
RECURSIVE ReadAll(_, _, _)
ReadAll(Reader(_, _), st, lines) ==
    IF lines = <<>> THEN <<>>
    ELSE LET p == Reader(st, Head(lines))
         IN IF p.ret THEN p.events ELSE p.events \o ReadAll(Reader, p.pst, Tail(lines))

ParserState == [started |-> FALSE, cur |-> "", acc |-> <<>>]

ParseInit ==
    /\ arg \in SeqsUpTo(ResponsesLines, MaxLines)
    /\ out = NoResult
    /\ sink = NewSink(FALSE, FALSE)
    /\ RunnerIdle
    /\ StreamIdle
    /\ UsersIdle
    /\ LockIdle
    /\ AuthIdle
    /\ ToolIdle
    /\ FileIdle

DoParse ==
    /\ ~out.has
    /\ out' = Result([openai |-> ReadAll(OpenAIReadLine, ParserState, arg),
                      copilot |-> ReadAll(CopilotReadResponsesLine, ParserState, arg)])
    /\ UNCHANGED arg
    /\ UNCHANGED <<sink, runnerVars, streamVars, userVars, lockVars, authVars, toolVars, fileVars>>

ParseNext == DoParse

SpecParse == ParseInit /\ [][ParseNext]_vars

----
\* The adapters' HTTP status handling (Complete and Stream of each adapter)
\* and the error normaliser (src/unnamed/part_001, lines 659-693).

Statuses == {200, 204, 400, 401, 403, 404, 418, 429, 500, 503}

ErrorBodies == { <<>>, <<"not supported">>, <<"Unauthorized">> }

\* p.Name()
Name(a) == IF a \in {"copilot-chat", "copilot-responses"} THEN "github-copilot" ELSE a

ProviderError(provider, status, message, guidance) ==
    [kind |-> "ProviderError", status_code |-> status, provider |-> provider,
     message |-> message, guidance |-> guidance, channel |-> FALSE]

NormalizeHTTPError(providerName, statusCode, respBody) ==
    CASE statusCode = 401 -> ProviderError(providerName, statusCode, <<"authentication failed">>, "api-key")
      [] statusCode = 403 -> ProviderError(providerName, statusCode, <<"access denied">>, "permissions")
      [] statusCode = 404 -> ProviderError(providerName, statusCode, <<"endpoint or model not found">>, "endpoint")
      [] statusCode = 429 -> ProviderError(providerName, statusCode, <<"rate limited">>, "wait")
      [] statusCode >= 500 -> ProviderError(providerName, statusCode, <<"server error">>, "retry")
      [] OTHER -> ProviderError(providerName, statusCode, <<"unexpected error">> \o respBody, "")

normalizeCopilotError(statusCode, respBody) ==
    LET pe == NormalizeHTTPError("github-copilot", statusCode, respBody)
    IN CASE statusCode = 401 -> [pe EXCEPT !.guidance = "copilot-login"]
         [] statusCode = 403 ->
              IF ContainsWord(respBody, "not supported")
              THEN [pe EXCEPT !.message = <<"model not available">>, !.guidance = "enable the model"]
              ELSE [pe EXCEPT !.guidance = "copilot-login"]
         [] OTHER -> pe

AdapterError(a, statusCode, respBody) ==
    IF a \in {"copilot-chat", "copilot-responses"} THEN normalizeCopilotError(statusCode, respBody)
    ELSE NormalizeHTTPError(a, statusCode, respBody)

PlainError(text) ==
    [kind |-> "error", status_code |-> 0, provider |-> "", message |-> <<text>>,
     guidance |-> "", channel |-> FALSE]

Returned(hasChannel) ==
    [kind |-> "nil", status_code |-> 0, provider |-> "", message |-> <<>>,
     guidance |-> "", channel |-> hasChannel]

\* Complete: io.ReadAll(httpResp.Body) and its error come before the status check.
Complete(a, statusCode, respBody, readFails) ==
    IF readFails THEN PlainError("reading response")
    ELSE IF statusCode # 200 THEN AdapterError(a, statusCode, respBody)
    ELSE Returned(FALSE)

\* Stream: the status check comes first; `body, _ := io.ReadAll(...)` drops the
\* read error.
Stream(a, statusCode, respBody, readFails) ==
    IF statusCode # 200 THEN AdapterError(a, statusCode, IF readFails THEN <<>> ELSE respBody)
    ELSE Returned(TRUE)

HTTPInit ==
    /\ arg \in [a : Adapters, op : {"complete", "stream"}, status : Statuses,
                respBody : ErrorBodies, readFails : BOOLEAN]
    /\ out = NoResult
    /\ sink = NewSink(FALSE, FALSE)
    /\ RunnerIdle
    /\ StreamIdle
    /\ UsersIdle
    /\ LockIdle
    /\ AuthIdle
    /\ ToolIdle
    /\ FileIdle

DoRequest ==
    /\ ~out.has
    /\ out' = Result(IF arg.op = "complete"
                     THEN Complete(arg.a, arg.status, arg.respBody, arg.readFails)
                     ELSE Stream(arg.a, arg.status, arg.respBody, arg.readFails))
    /\ UNCHANGED arg
    /\ UNCHANGED <<sink, runnerVars, streamVars, userVars, lockVars, authVars, toolVars, fileVars>>

HTTPNext == DoRequest

SpecHTTP == HTTPInit /\ [][HTTPNext]_vars

----
\* NormalizeDomain and CopilotBaseURL applied to domain strings.

MaxDomainLen == 3

DomainTokens == {"https://", "company.ghe.com", "github.com", "/", " "}

DomainInit ==
    /\ arg \in SeqsUpTo(DomainTokens, MaxDomainLen)
    /\ out = NoResult
    /\ sink = NewSink(FALSE, FALSE)
    /\ RunnerIdle
    /\ StreamIdle
    /\ UsersIdle
    /\ LockIdle
    /\ AuthIdle
    /\ ToolIdle
    /\ FileIdle

DoCopilotBaseURL ==
    /\ ~out.has
    /\ out' = Result([domain |-> NormalizeDomain(arg), url |-> CopilotBaseURL(arg)])
    /\ UNCHANGED arg
    /\ UNCHANGED <<sink, runnerVars, streamVars, userVars, lockVars, authVars, toolVars, fileVars>>

DomainNext == DoCopilotBaseURL

SpecDomain == DomainInit /\ [][DomainNext]_vars

----
\* A stream long enough to fill the channel: the body is a run of text items,
\* more of them than the channel holds, and the consumer may stop receiving
\* at any point.

MaxBurst == 17

TextItem(a) ==
    CASE a \in {"openai", "copilot-responses"} ->
           SSELine("json", "response.output_text.delta", <<"x">>, Nil)
      [] a = "copilot-chat" -> ChatLine("json", TRUE, <<"x">>, <<>>, "")
      [] a = "anthropic" -> Frame("content_block_delta", TRUE, TRUE, "text_delta", <<"x">>)
      [] OTHER -> GItem("elem", <<"x">>, <<>>, FALSE)

Burst(a, n) ==
    (IF a = "google" THEN <<GItem("open", <<>>, <<>>, FALSE)>> ELSE <<>>)
    \o [k \in 1..n |-> TextItem(a)]

BurstInit ==
    /\ adapter \in Adapters
    /\ \E n \in (MaxBurst - 2)..MaxBurst : body = Burst(adapter, n)
    /\ bodyEnd \in {"eof", "open"}
    /\ ctxDone = FALSE
    /\ ppc = "read"
    /\ pending = <<>>
    /\ ret = FALSE
    /\ pst = [started |-> FALSE, cur |-> "", acc |-> <<>>]
    /\ sch = <<>>
    /\ schClosed = FALSE
    /\ sent = <<>>
    /\ cancelOpen = FALSE
    /\ sink = NewSink(FALSE, FALSE)
    /\ RunnerIdle
    /\ UsersIdle
    /\ RestIdle

SpecBurst == BurstInit /\ [][StreamNext]_vars

\* The producer goroutine runs whenever it can; nothing makes the consumer
\* receive.
FairSpecBurst ==
    SpecBurst /\ WF_vars(ProducerRead) /\ WF_vars(ProducerSend) /\ WF_vars(ProducerClose)

\* The same with a consumer that keeps receiving.
FairSpecBurstDrained == FairSpecBurst /\ WF_vars(Receive)

----
\* Logged sessions rooted at one base directory (src/internal/output/output.go,
\* NewSink, lines 63-87).  A session is a process that calls NewSink with
\* Log set, emits records and closes the sink; the processes share the
\* directory <base>/.rai/log and the wall clock.

MaxWall == 2

MaxRecords == 2

Sessions == {"s1", "s2"}

\* s.now().Format("20060102.150405"): the time to the second.
LogName(t) == <<"rai-log-", t, ".log">>

Hole == [by |-> "", text |-> <<>>]

\* A write of one unit through a descriptor at offset off: past the end of the
\* file the gap reads as zeros.
PWrite(f, off, u) ==
    IF off < Len(f) THEN [f EXCEPT ![off + 1] = u]
    ELSE f \o [k \in 1..(off - Len(f)) |-> Hole] \o <<u>>

Session(at, path, off, n) == [at |-> at, path |-> path, off |-> off, n |-> n]

\* os.Create(path): O_RDWR|O_CREATE|O_TRUNC.
Create(dir, path) ==
    IF path \in DOMAIN dir THEN [dir EXCEPT ![path] = <<>>] ELSE dir @@ (path :> <<>>)

\* NewSink with opts.Log: the name is built from the clock and the file created.
SessNewSink ==
    /\ \E s \in Sessions :
         /\ sess[s].at = "new"
         /\ logDir' = Create(logDir, LogName(wall))
         /\ sess' = [sess EXCEPT ![s] = Session("open", LogName(wall), 0, 0)]
    /\ UNCHANGED wall
    /\ UNCHANGED <<disk, sinkOff, dpc, installed, fops>>
    /\ UNCHANGED <<sink, runnerVars, streamVars, userVars, lockVars, pureVars, authVars, toolVars>>

\* A record is written to the session's log file.
SessEmit ==
    /\ \E s \in Sessions :
         /\ sess[s].at = "open"
         /\ sess[s].n < MaxRecords
         /\ logDir' = [logDir EXCEPT ![sess[s].path] =
                          PWrite(@, sess[s].off, Unit(s, <<"record", sess[s].n>>))]
         /\ sess' = [sess EXCEPT ![s] = Session("open", @.path, @.off + 1, @.n + 1)]
    /\ UNCHANGED wall
    /\ UNCHANGED <<disk, sinkOff, dpc, installed, fops>>
    /\ UNCHANGED <<sink, runnerVars, streamVars, userVars, lockVars, pureVars, authVars, toolVars>>

\* Sink.Close
SessClose ==
    /\ \E s \in Sessions :
         /\ sess[s].at = "open"
         /\ sess' = [sess EXCEPT ![s].at = "closed"]
    /\ UNCHANGED <<logDir, wall>>
    /\ UNCHANGED <<disk, sinkOff, dpc, installed, fops>>
    /\ UNCHANGED <<sink, runnerVars, streamVars, userVars, lockVars, pureVars, authVars, toolVars>>

\* A second passes.
WallTick ==
    /\ wall < MaxWall
    /\ wall' = wall + 1
    /\ UNCHANGED <<logDir, sess>>
    /\ UNCHANGED <<disk, sinkOff, dpc, installed, fops>>
    /\ UNCHANGED <<sink, runnerVars, streamVars, userVars, lockVars, pureVars, authVars, toolVars>>

SessInit ==
    /\ logDir = <<>>
    /\ wall = 0
    /\ sess = [s \in Sessions |-> Session("new", <<>>, 0, 0)]
    /\ disk = <<>>
    /\ sinkOff = 0
    /\ dpc = Pos("idle", "", 0)
    /\ installed = FALSE
    /\ fops = 0
    /\ sink = NewSink(FALSE, FALSE)
    /\ RunnerIdle
    /\ StreamIdle
    /\ UsersIdle
    /\ LockIdle
    /\ PureIdle
    /\ AuthIdle
    /\ ToolIdle

SessNext ==
    \/ SessNewSink
    \/ SessEmit
    \/ SessClose
    \/ WallTick

SpecSessions == SessInit /\ [][SessNext]_vars

----
\* Helpers of the properties.

IsSubSeqAt(sub, seq, p) == p + Len(sub) - 1 <= Len(seq) /\ SubSeq(seq, p, p + Len(sub) - 1) = sub

Contains(seq, sub) == \E p \in 1..Len(seq) : IsSubSeqAt(sub, seq, p)

IsRecord(frag, kind) == Len(frag.text) >= 3 /\ SubSeq(frag.text, 1, 3) = <<"[", kind, "] ">>

ConsoleCount(c, kind) == Cardinality({ k \in 1..Len(c) : IsRecord(c[k], kind) })

LastFrag(c) == c[Len(c)]

AtLineStart(c) == c = <<>> \/ HasSuffixNL(LastFrag(c).text)

ToolFails(tc) == executeToolCall(tc).err # <<>>

\* C1: whatever the provider streams and the tools return, a Runner
\* invocation calls Provider.Stream at most 10 times.
C1_AtMostTenStreamCalls == streamCalls <= 10

C1_Witness == streamCalls = 10 /\ pc = "returned" /\ trace.op = "Exhausted"

\* C2: in every message list passed to Provider.Stream, each tool message
\* comes after an assistant message one of whose tool calls has the id that
\* the tool message carries as tool_call_id.
C2_ToolMessagesAnswerACall ==
    \A k \in 1..Len(lastReq) :
        lastReq[k].role = "tool" =>
            \E j \in 1..(k - 1) :
                /\ lastReq[j].role = "assistant"
                /\ \E c \in 1..Len(lastReq[j].tool_calls) :
                       lastReq[j].tool_calls[c].id = lastReq[k].tool_call_id

\* C6: a failing tool call does not make the Runner return: the step appends
\* one tool message holding the error text and stays in the loop, and after
\* the last call of the iteration the next provider call is due unless ten
\* iterations are used up.
C6_ToolFailureStep ==
    (pc = "tools" /\ tcIdx <= Len(toolCalls) /\ ToolFails(toolCalls[tcIdx])) =>
        /\ result' = "none"
        /\ pc' \in {"tools", "loop"}
        /\ Len(messages') = Len(messages) + 1
        /\ SubSeq(messages', 1, Len(messages)) = messages
        /\ messages'[Len(messages')].role = "tool"
        /\ Contains(messages'[Len(messages')].content, executeToolCall(toolCalls[tcIdx]).err)

C6_NextCallDue == (pc = "loop" /\ iter < 10) => ENABLED StreamCall

C6_ToolFailureNeverFatal == [][C6_ToolFailureStep]_vars /\ []C6_NextCallDue

C6_Witness ==
    /\ pc = "consume"
    /\ streamCalls > 1
    /\ \E k \in 1..Len(lastReq) :
           lastReq[k].role = "tool" /\ Contains(lastReq[k].content, <<"command timed out">>)

\* C7: after ten iterations that each ended with tool calls the Runner makes no
\* eleventh provider call: it can only emit the ERR record "maximum tool call
\* iterations reached" and return an error.
C7_IterationCap ==
    iter = 10 =>
        /\ streamCalls = 10
        /\ pc \in {"loop", "returned"}
        /\ pc = "loop" => (ENABLED LoopExhausted /\ ~ENABLED StreamCall)
        /\ pc = "returned" =>
               /\ result = "err"
               /\ Len(sink.console) >= 1
               /\ LastFrag(sink.console).text
                      = <<"[", EventERR, "] ", "maximum tool call iterations reached", "\n">>

C7_Witness == iter = 10 /\ pc = "returned" /\ trace.op = "Exhausted"

\* C8: when Provider.Stream fails or the channel delivers an error event, the
\* Runner ends the AI console line in flight, emits exactly one ERR record,
\* returns the error, and does nothing afterwards: no provider call, no tool
\* call, not even for tool calls collected from that stream.
C8_ErrorStep ==
    /\ trace'.op \in {"StreamFailed", "StreamError"} =>
           /\ result' = "err"
           /\ pc' = "returned"
           /\ messages' = messages
           /\ Len(sink'.console) >= 1
           /\ IsRecord(LastFrag(sink'.console), EventERR)
           /\ ConsoleCount(sink'.console, EventERR) = ConsoleCount(sink.console, EventERR) + 1
           /\ AtLineStart(SubSeq(sink'.console, 1, Len(sink'.console) - 1))
    /\ pc # "returned"

C8_StreamErrorIsFinal == [][C8_ErrorStep]_vars

C8_Witness ==
    /\ trace.op = "StreamError"
    /\ Len(toolCalls) > 0
    /\ fullText # <<>>
    /\ ~sink.silent
    /\ streamCalls > 1


----
\* Claims about the adapters' stream channels.

ErrorsSent == { k \in 1..Len(sent) : sent[k].type = "error" }

TerminalSent == \E k \in 1..Len(sent) : IsTerminal(sent[k])

\* C3: on every adapter's channel, once a done or an error event has been sent
\* nothing more is sent, the producer has nothing left to do but close the
\* channel, and it does close it.
C3_NothingAfterTerminalStep == TerminalSent => sent' = sent

C3_CloseDue ==
    TerminalSent => /\ pending = <<>>
                    /\ schClosed \/ ENABLED ProducerClose
                    /\ ~ENABLED ProducerRead
                    /\ ~ENABLED ProducerSend

C3_TerminalThenClosed ==
    /\ [][C3_NothingAfterTerminalStep]_vars
    /\ []C3_CloseDue
    /\ (TerminalSent ~> schClosed)

C3_Witness ==
    /\ schClosed
    /\ Len(sent) >= 2
    /\ IsTerminal(sent[Len(sent)])
    /\ sch = <<>>

\* C4: on every adapter, a closed channel that carried no error event carried
\* done as its last event, and one that carried an error carried it last.
C4_ClosedAfterTerminalEvent ==
    schClosed =>
        IF ErrorsSent # {}
        THEN sent[Len(sent)].type = "error"
        ELSE sent # <<>> /\ sent[Len(sent)].type = "done"

\* C5: on every adapter, when the context is cancelled while the stream is
\* open, the closed channel has carried exactly one error event, the error is
\* the context's and it is the last event.
C5_CancelGivesOneContextError ==
    (schClosed /\ cancelOpen) =>
        /\ Cardinality(ErrorsSent) = 1
        /\ sent[Len(sent)] = EvErr("ctx")


----
\* Claims about the sink.

\* C9: however the producers' calls to the sink interleave, the console is a
\* sequence of whole records: what is written in the middle of a line comes
\* from the producer that began the line.
C9_ConsoleWholeRecords ==
    \A k \in 2..Len(sink.console) :
        ~HasSuffixNL(sink.console[k - 1].text) => sink.console[k].by = sink.console[k - 1].by

\* C10: with logging enabled the log file holds the session header and every
\* record handed to the sink while the file was open, each streamed AI chunk
\* and the final answer included.
C10_LogHoldsEveryRecord ==
    sink.log # <<>> => sink.log = <<Header>> \o handed

----
\* Claims about what reaches the console.

LogCount(l, kind) == Cardinality({ k \in 1..Len(l) : l[k].kind = kind })

FinalLine(text) == IF HasSuffixNL(text) THEN text ELSE text \o <<"\n">>

\* C11: in silent mode the console holds nothing but ERR records and, once the
\* session has succeeded, the final answer as its last write; in normal mode
\* every record kept in the log has reached the console too, every kind of it.
C11_SilentConsole ==
    /\ sink.silent =>
         \A k \in 1..Len(sink.console) :
            \/ IsRecord(sink.console[k], EventERR)
            \/ /\ result = "ok"
               /\ k = Len(sink.console)
               /\ sink.console[k].text = FinalLine(fullText)
    /\ (~sink.silent /\ sink.logFile # "nil") =>
         /\ \A kind \in {EventReasoning, EventCMD, EventOUT, EventERR} :
               ConsoleCount(sink.console, kind) = LogCount(sink.log, kind)
         /\ LogCount(sink.log, EventAI) <= ConsoleCount(sink.console, EventAI)

C11_Witness ==
    /\ sink.silent
    /\ result = "ok"
    /\ fullText # <<>>
    /\ ConsoleCount(sink.console, EventERR) >= 1
    /\ LastFrag(sink.console).text = FinalLine(fullText)
    /\ \E k \in 1..Len(messages) : messages[k].role = "tool"

----
\* Claims about the sink's mutex.

\* C12: a goroutine that is about to read or write the sink's shared state
\* (the log file handle, the console writer) holds the sink's mutex.
C12_StateOnlyUnderMutex ==
    \A t \in Producers : lpc[t].at \in {"check", "body"} => mu = t

----
\* Claims about the Anthropic reader.

\* The frames of arg the producer has read.
FramesRead == SubSeq(arg, 1, Len(arg) - Len(body))

\* The positions in a frame sequence where a tool_use block stops: a
\* content_block_stop with a tool_use content_block_start before it and
\* nothing but partial-JSON deltas in between.
ToolBlockStops(frames) ==
    { i \in 1..Len(frames) :
        /\ frames[i].event = "content_block_stop"
        /\ \E j \in 1..(i - 1) :
              /\ frames[j].event = "content_block_start"
              /\ frames[j].dtype = "tool_use"
              /\ \A k \in (j + 1)..(i - 1) : frames[k].dtype = "input_json_delta" }

ToolCallsSent == { k \in 1..Len(sent) : sent[k].type = "tool_calls" }

\* C13: once the Anthropic producer has sent all it has to send, the channel
\* has carried one tool_calls event for every tool_use block that has stopped
\* in the frames read.
C13_OneToolCallsEventPerBlock ==
    (adapter = "anthropic" /\ pending = <<>>) =>
        Cardinality(ToolCallsSent) = Cardinality(ToolBlockStops(FramesRead))

----
\* Claims about the device-code flow.

PollHandled == apc = "poll" /\ ~authCtxDone /\ apc' # "poll"

\* C14: on every slow_down response the polling interval becomes the server's
\* interval when that is positive, and otherwise the interval in force before
\* the response plus 5 seconds.
C14_SlowDownStep ==
    (PollHandled /\ apc' = "sleep" /\ tokenData'.error = "slow_down") =>
        interval' = IF tokenData'.interval > 0 THEN tokenData'.interval * Second
                    ELSE interval + 5 * Second

C14_SlowDownBackoff == [][C14_SlowDownStep]_vars

\* C15, as stated: on a token response the flow returns the token when there
\* is one, polls on only when the error is authorization_pending or slow_down,
\* and fails with the error code for any other error.
C15_OriginalStep ==
    (PollHandled /\ tokenData'.status = 200 /\ tokenData'.json) =>
        /\ tokenData'.access_token # "" => authRet' = Ret("token", tokenData'.access_token)
        /\ apc' = "sleep" => tokenData'.error \in {"authorization_pending", "slow_down"}
        /\ (tokenData'.access_token = ""
              /\ tokenData'.error \notin {"authorization_pending", "slow_down", ""})
             => authRet' = Ret("error", tokenData'.error)

C15_PollsOnOnlyWhenPendingOrSlowDown == [][C15_OriginalStep]_vars

\* C15, amended: on a token response the flow returns the token when there is
\* one; without a token it polls on exactly when the error is
\* authorization_pending, slow_down or empty, and fails with the error code
\* for any other error.
C15_AmendedStep ==
    (PollHandled /\ tokenData'.status = 200 /\ tokenData'.json) =>
        /\ tokenData'.access_token # "" => authRet' = Ret("token", tokenData'.access_token)
        /\ apc' = "sleep" <=>
              /\ tokenData'.access_token = ""
              /\ tokenData'.error \in {"authorization_pending", "slow_down", ""}
        /\ (tokenData'.access_token = ""
              /\ tokenData'.error \notin {"authorization_pending", "slow_down", ""})
             => authRet' = Ret("error", tokenData'.error)

C15_PollsOnWhenPendingSlowDownOrNoError == [][C15_AmendedStep]_vars

C15_Witness ==
    /\ apc = "returned"
    /\ polls >= 2
    /\ ~authCtxDone
    /\ tokenData.error = "access_denied"
    /\ authRet = Ret("error", "access_denied")

Rank(at) == CASE at = "returned" -> 0 [] at = "poll" -> 1 [] at = "device" -> 1 [] OTHER -> 2

\* C16: once the context is cancelled DeviceAuth returns no token, every step
\* of it brings the return nearer (two steps at most), and it does return,
\* with an error.
C16_CancelledStep ==
    (authCtxDone /\ authCtxDone') =>
        /\ authRet'.kind # "token"
        /\ Rank(apc') < Rank(apc)

C16_CancelStopsTheFlow ==
    /\ [][C16_CancelledStep]_vars
    /\ (authCtxDone ~> (apc = "returned" /\ authRet.kind = "error"))

C16_Witness ==
    /\ authCtxDone
    /\ apc = "returned"
    /\ polls >= 1
    /\ authRet = Ret("error", "context canceled")

\* C17: a token poll starts no sooner than the polling interval in force plus
\* 500 ms after the poll before it started.
C17_PollSpacingStep ==
    (apc = "sleep" /\ apc' = "poll" /\ pollAt >= 0) =>
        pollAt' >= pollAt + interval + 500

C17_PollSpacing == [][C17_PollSpacingStep]_vars

\* After interval=5 from the device endpoint and slow_down with interval=7 the
\* next poll has started, 7.5 s or more after the one before.
C17_Witness ==
    /\ deviceInterval = 5
    /\ tokenData = Resp(200, TRUE, "", "slow_down", 7)
    /\ apc = "poll"
    /\ polls = 2
    /\ pollAt >= sleepFrom + 7500

----
\* Claims about the settings.

\* The sources of arg, in the order of Sources, that hold key k.
Holders(k) == { i \in 1..Len(Sources) : k \in DOMAIN arg[Sources[i]] }

Last(S) == CHOOSE i \in S : \A j \in S : j <= i

\* C18: the merge maps every key to the value of the last source, in the
\* order defaults, env, file, agent, cli, that holds the key, and holds no key
\* that no source holds.
C18_LastSourceWins ==
    out.has =>
        \A k \in Keys :
            IF Holders(k) = {} THEN k \notin DOMAIN out.val
            ELSE /\ k \in DOMAIN out.val
                 /\ out.val[k] = arg[Sources[Last(Holders(k))]][k]

C18_Witness ==
    /\ out.has
    /\ Holders("model") = {1, 2, 4, 5}
    /\ Holders("endpoint") = {1, 2, 3}
    /\ out.val = [model |-> "cli", endpoint |-> "file"]

\* C19: the file written for a settings map reads back as that map: no error,
\* the same keys, the same value for every key.
C19_SaveLoadRoundTrip ==
    out.has => (~out.val.err /\ out.val.values = arg)

\* For keys made of letters alone the file does read back as the map.
PlainKeysRoundTrip ==
    (out.has /\ \A k \in DOMAIN arg : \A p \in 1..Len(k) : k[p] = "a") =>
        (~out.val.err /\ out.val.values = arg)

----
\* Claims about provider resolution.

NotCopilot(cfg) == TrimSpace(Get(cfg, "provider")) \notin CopilotVariants

NoAPIKey(cfg) == Get(cfg, "api-key") = <<>> /\ Get(cfg, "api_key") = <<>>

\* C20: for settings whose provider is not a Copilot variant Resolve gives
\* NO_PROVIDER when the endpoint is empty (blank), whatever api key and model
\* are; otherwise AUTH_REQUIRED when neither api-key nor api_key has a value;
\* otherwise MODEL_REQUIRED when the model is empty; otherwise an adapter; and
\* no stream has been opened, no request made, when it returns.
C20_ResolveErrorsInOrder ==
    (out.has /\ NotCopilot(arg)) =>
        /\ IF TrimSpace(Get(arg, "endpoint")) = <<>> THEN out.val.err = ErrNoProvider
           ELSE IF NoAPIKey(arg) THEN out.val.err = ErrAuthRequired
           ELSE IF Get(arg, "model") = <<>> THEN out.val.err = ErrModelRequired
           ELSE /\ out.val.err = ""
                /\ out.val.adapter \in {"openai", "anthropic", "google"}
        /\ StreamIdle
        /\ streamCalls = 0

\* TestResolveNoModel: endpoint and api-key set, no model.
C20_Witness ==
    /\ out.has
    /\ DOMAIN arg = {"endpoint", "api-key"}
    /\ arg["endpoint"] = <<"https://api.", "openai", ".com/v1">>
    /\ arg["api-key"] = <<"sk-test">>
    /\ out.val.err = ErrModelRequired

----
\* C21: with provider github-copilot-enterprise and a token present, Resolve
\* fails whenever enterprise-url is not set.
IsEnterprise(cfg) == TrimSpace(Get(cfg, "provider")) = <<"github-copilot-enterprise">>

HasCopilotToken(cfg) ==
    \E k \in {"api-key", "api_key", "copilot-token"} : Get(cfg, k) # <<>>

C21_EnterpriseRequiresURL ==
    (out.has /\ IsEnterprise(arg) /\ HasCopilotToken(arg) /\ Get(arg, "enterprise-url") = <<>>)
        => out.val.err # ""

----
\* C22: the request of every Provider.Stream call made through the Copilot
\* adapter carries x-initiator `user` when its last message is a user turn and
\* `agent` otherwise.
C22_InitiatorFollowsLastMessage ==
    streamCalls >= 1 =>
        copilotSetHeaders(<<"gho_test">>, lastReq)["x-initiator"] =
            (IF lastReq[Len(lastReq)].role = "user" THEN <<"user">> ELSE <<"agent">>)

----
\* Claims about the Copilot chat reader.

IsToolCallsEvent(ev) == ev.type = "tool_calls"

\* The calls the accumulator holds once the chunk's deltas are merged in.
AccumulatedCalls(acc, line) ==
    LET acc1 == AccMergeAll(acc, line.deltas)
    IN { ToolCall(acc1[k].id, acc1[k].name, acc1[k].args) : k \in 1..Len(acc1) }

\* The producer reads a chunk that finishes with tool_calls or stop while
\* calls, all of them named, are accumulated.
FinishChunkRead ==
    /\ adapter = "copilot-chat"
    /\ ppc = "read"
    /\ body # <<>>
    /\ body' = Tail(body)
    /\ Head(body).k = "json"
    /\ Head(body).choices
    /\ Head(body).fin \in {"tool_calls", "stop"}
    /\ AccumulatedCalls(pst.acc, Head(body)) # {}
    /\ \A c \in AccumulatedCalls(pst.acc, Head(body)) : c.name # ""

C23_FlushStep ==
    FinishChunkRead =>
        LET evs == SelectSeq(pending', IsToolCallsEvent)
        IN /\ Len(evs) = 1
           /\ { evs[1].calls[k] : k \in 1..Len(evs[1].calls) }
                = AccumulatedCalls(pst.acc, Head(body))

\* C23: a chunk of the Copilot chat stream with finish_reason tool_calls or
\* stop makes the reader send one tool_calls event that holds every call
\* accumulated up to that chunk.
C23_FlushIsOneEvent == [][C23_FlushStep]_vars

----
\* Claims about the terminal command.

C24_DeadlineRespected == tpc = "running" => tclock <= commandTimeout

C24_CancelStep == (tpc = "running" /\ sessDone) => tclock' = tclock

\* C24: a running terminal command never runs past 30 seconds and never runs
\* on, as time passes, once the session's context is cancelled.
C24_StoppedByDeadlineOrCancel == []C24_DeadlineRespected /\ [][C24_CancelStep]_vars

----
\* Claims about the records of a tool call.

\* The kinds of the records a step has added to the log.
NewLogKinds ==
    [k \in 1..(Len(sink'.log) - Len(sink.log)) |-> sink'.log[Len(sink.log) + k].kind]

C25_ToolRecordsStep ==
    (pc = "tools" /\ tcIdx <= Len(toolCalls) /\ sink.logFile # "nil") =>
        NewLogKinds = IF ToolFails(toolCalls[tcIdx])
                      THEN <<EventCMD, EventERR, EventOUT>>
                      ELSE <<EventCMD, EventOUT>>

\* C25: for each tool call the Runner processes the sink receives a CMD
\* record, then an OUT record when the call succeeds, or an ERR record and
\* then an OUT record when it fails.
C25_ToolCallRecords == [][C25_ToolRecordsStep]_vars

----
\* Claims about the conversation.

IsPrefix(short, long) == Len(short) <= Len(long) /\ SubSeq(long, 1, Len(short)) = short

C26_AppendOnlyStep == IsPrefix(messages, messages')

C26_ResendStep ==
    (streamCalls >= 1 /\ streamCalls' = streamCalls + 1) =>
        /\ IsPrefix(lastReq, lastReq')
        /\ Len(lastReq) < Len(lastReq')
        /\ lastReq' = messages

\* C26: within one Runner invocation messages are only ever appended, and the
\* list sent in a provider call has the list sent in the call before it as a
\* proper prefix and is the whole conversation accumulated so far.
C26_RequestsGrowByAppending == [][C26_AppendOnlyStep /\ C26_ResendStep]_vars

C26_Witness ==
    /\ streamCalls >= 3
    /\ Len(lastReq) >= 6
    /\ lastReq = messages
    /\ lastReq[Len(lastReq)].role = "tool"

----
\* Claims about the streamed AI line.

AIPrefix == <<"[", EventAI, "] ">>

\* The text of the console fragments from position k on.
ConsoleTextFrom(c, k) == Flatten([j \in 1..(Len(c) - k + 1) |-> c[k + j - 1].text])

\* The console ends with one `[AI] ` prefix followed by the text streamed so far.
AILineOpen(c, text) ==
    \E k \in 1..Len(c) : c[k].text = AIPrefix /\ ConsoleTextFrom(c, k + 1) = text

ConsoleAdded == SubSeq(sink'.console, Len(sink.console) + 1, Len(sink'.console))

C27_WhileStreaming ==
    (pc = "consume" /\ ~sink.silent /\ fullText # <<>>) =>
        streamingAI /\ AILineOpen(sink.console, fullText)

C27_EndStep ==
    (pc = "consume" /\ pc' # "consume" /\ ~sink.silent /\ fullText # <<>>) =>
        IF HasSuffixNL(fullText)
        THEN \A k \in 1..Len(ConsoleAdded) : ConsoleAdded[k].text # <<"\n">>
        ELSE /\ Len(ConsoleAdded) >= 1
             /\ ConsoleAdded[1].text = <<"\n">>
             /\ \A k \in 2..Len(ConsoleAdded) : ConsoleAdded[k].text # <<"\n">>

----
\* C28: when provider construction fails with NO_PROVIDER, AUTH_REQUIRED,
\* MODEL_REQUIRED or the Copilot missing-token error, prompt mode ends with
\* exit code 1.
C28_ResolveFailureExitsOne ==
    (out.has /\ out.val.err \in {ErrNoProvider, ErrAuthRequired, ErrModelRequired, ErrCopilotToken})
        => out.val.exit = 1

----
\* Claims about the log file.

C29_WriteStep == disk' # disk => (mu = By /\ IsPrefix(disk, disk'))

AppendStep == IsPrefix(disk, disk')

\* The file only grows: violated once a sink write follows a debug block.
LogAppendOnly == [][AppendStep]_vars

----
\* C30: in logged mode the header block is the first thing in the log file:
\* every event record of the session comes after it.
C30_HeaderFirst ==
    sink.log # <<>> =>
        /\ sink.log[1] = Header
        /\ \A k \in 2..Len(sink.log) : sink.log[k] # Header

----
\* C31: for every sequence of SSE lines the Copilot Responses reader sends the
\* same events as the OpenAI Responses reader.
C31_SameEvents == out.has => out.val.copilot = out.val.openai

----
\* Claims about HTTP errors.

\* httpResp.StatusCode != http.StatusOK
FailingStatus(s) == s # 200

\* C32: for every adapter and every response with a failing status S,
\* complete() and stream() return a ProviderError with status_code S and the
\* adapter's name, and stream() returns no channel.
C32_FailingStatusGivesProviderError ==
    (out.has /\ FailingStatus(arg.status)) =>
        /\ out.val.kind = "ProviderError"
        /\ out.val.status_code = arg.status
        /\ out.val.provider = Name(arg.a)
        /\ ~out.val.channel

\* The same for stream() alone, and for complete() when the body can be read.
StreamErrorsNormalised ==
    (out.has /\ FailingStatus(arg.status) /\ (arg.op = "stream" \/ ~arg.readFails)) =>
        /\ out.val.kind = "ProviderError"
        /\ out.val.status_code = arg.status
        /\ out.val.provider = Name(arg.a)
        /\ ~out.val.channel

----
\* Claims about the closed sink.

Closed(s) == s.logFile = "nil"

\* On a closed sink: Close changes nothing, no call adds to the log or reopens
\* it, Emit reaches the console exactly when the filter lets the kind through,
\* and EmitFinal always reaches the console.
C33_ClosedStep ==
    Closed(sink) =>
        /\ Close(sink) = sink
        /\ UserClose => sink' = sink
        /\ Closed(sink')
        /\ sink'.log = sink.log
        /\ \A p \in Producers, kind \in {EventCMD, EventERR} :
             LET after == Emit(sink, p, kind, <<"e">>)
             IN /\ after.log = sink.log
                /\ IF ~sink.silent \/ kind = EventERR
                   THEN /\ Len(after.console) = Len(sink.console) + 1
                        /\ IsRecord(after.console[Len(after.console)], kind)
                   ELSE after.console = sink.console
        /\ \A p \in Producers, text \in ChunkSet :
             LET after == EmitFinal(sink, p, text)
             IN /\ after.log = sink.log
                /\ Len(after.console) = Len(sink.console) + 1
        /\ (UserEmit \/ UserEmitFinal) =>
             (sink.silent \/ Len(sink'.console) = Len(sink.console) + 1)

\* C33: closing the sink again is the same as closing it once, and emits
\* after close still write to the console by the console filter but write
\* nothing to the log file.
C33_CloseIdempotentEmitsGoOn == [][C33_ClosedStep]_vars

\* A session that logged one CMD record, was closed, and then emitted a second
\* CMD record which reached the console only.
C33_Witness ==
    /\ ~sink.silent
    /\ Closed(sink)
    /\ Len(handed) = 1
    /\ handed[1].kind = EventCMD
    /\ sink.log = <<Header, handed[1]>>
    /\ Len(sink.console) = 2
    /\ \A k \in 1..2 : IsRecord(sink.console[k], EventCMD)

----
\* Claims about the Copilot base URL.

\* C34: CopilotBaseURL(D) is the public endpoint exactly when NormalizeDomain(D)
\* is empty or github.com, and otherwise is https://copilot-api. followed by
\* NormalizeDomain(D).
C34_BaseURLByDomain ==
    out.has =>
        /\ (out.val.url = <<"https://", "api.githubcopilot.com">>)
             <=> (out.val.domain = <<>> \/ out.val.domain = <<"github.com">>)
        /\ (out.val.domain # <<>> /\ out.val.domain # <<"github.com">>) =>
             out.val.url = <<"https://", "copilot-api.">> \o out.val.domain

\* An enterprise URL with scheme and trailing slash, reduced to its host.
C34_Witness ==
    /\ out.has
    /\ arg = <<"https://", "company.ghe.com", "/">>
    /\ out.val.domain = <<"company.ghe.com">>
    /\ out.val.url = <<"https://", "copilot-api.", "company.ghe.com">>

\* A URL of github.com itself takes the public endpoint.
C34_WitnessPublic ==
    /\ out.has
    /\ arg = <<"https://", "github.com">>
    /\ out.val.url = <<"https://", "api.githubcopilot.com">>

----
\* Claims about the end of the last stream.

\* Run returns nil in this step.
ReturnsSuccess == result # "ok" /\ result' = "ok"

\* C35: Run returns success with the accumulated text as the final answer
\* only if the last stream delivered a done event; a stream whose channel
\* closes with neither done nor error is never reported as a success.
C35_SuccessOnlyAfterDone == [][ReturnsSuccess => trace.op = "Done"]_vars

\* The part that holds: success is returned only when the channel is closed
\* and drained and no tool call and no error event came.
SuccessOnlyOnClosedChannel ==
    [][ReturnsSuccess => (pc = "consume" /\ ch = <<>> /\ toolCalls = <<>>)]_vars

----
\* Claims about the producer's exit.

ProducerExited == ppc = "exited" /\ schClosed

\* The producer is blocked in `ch <- ev` on a full buffer after cancellation.
BlockedOnFullBuffer == ctxDone /\ ppc = "send" /\ pending # <<>> /\ Len(sch) = ChanCap

\* C36: the producer eventually terminates and closes the channel and the
\* response body on every exit path, also when the context is cancelled while
\* the channel buffer is full and the consumer has stopped receiving.
C36_ProducerExitsAfterCancel == ctxDone ~> ProducerExited

\* With a consumer that keeps receiving, cancellation does end the producer.
ProducerExitsWhenDrained == [](ctxDone => <>ProducerExited)

----
\* Claims about termination.

\* Run performs at most maxToolIterations iterations and returns.
RunnerIterationsBounded == iter <= maxToolIterations /\ streamCalls <= maxToolIterations

RunnerReturns == <>(pc = "returned")

\* A terminal command has run past its deadline.
PastDeadline == tpc = "running" /\ tclock > commandTimeout

\* C37: every invocation of Run terminates when every stream channel is
\* closed in the end: at most 10 iterations, finitely many tool calls in each,
\* and every terminal tool execution over within its 30-second deadline.
C37_ToolEndsWithinDeadline == [](~PastDeadline) /\ <>(tpc = "returned")

----
\* Claims about the order of the flushed tool calls.

\* The accumulated entries by ascending index.
AscendingByIndex(acc) ==
    LET f == CHOOSE g \in Perms(Len(acc)) :
                 \A i, j \in 1..Len(acc) : i < j => acc[g[i]].index < acc[g[j]].index
    IN [k \in 1..Len(acc) |-> acc[f[k]]]

C38_FlushStep ==
    FinishChunkRead =>
        SelectSeq(pending', IsToolCallsEvent)
            = FlushEvents(AscendingByIndex(AccMergeAll(pst.acc, Head(body).deltas)))

\* C38: the Copilot chat reader delivers the accumulated tool calls in
\* ascending index order, so a fixed remote stream gives the same sequence of
\* events, and of tool executions, on every run.
C38_FlushInIndexOrder == [][C38_FlushStep]_vars

----
\* Claims about the messages of an iteration with tool calls.

\* While events are still to be received the conversation is left alone and
\* the delivered calls are collected in the order of delivery.
C39_CollectStep ==
    (pc = "consume" /\ ch # <<>>) =>
        /\ messages' = messages
        /\ (pc' = "consume" => toolCalls' = toolCalls \o Head(ch).calls)

\* The channel is closed and calls were delivered: one assistant message
\* carrying all of them, and the first call is next.
C39_AssistantStep ==
    (pc = "consume" /\ ch = <<>> /\ toolCalls # <<>>) =>
        /\ Len(messages') = Len(messages) + 1
        /\ IsPrefix(messages, messages')
        /\ messages'[Len(messages')].role = "assistant"
        /\ messages'[Len(messages')].tool_calls = toolCalls
        /\ pc' = "tools"
        /\ tcIdx' = 1
        /\ toolCalls' = toolCalls

\* A call is executed: one tool message for this call, then the next call of
\* the list or, after the last one, the next iteration with n + 1 messages
\* more than were sent.
C39_ToolStep ==
    pc = "tools" =>
        /\ tcIdx \in 1..Len(toolCalls)
        /\ Len(messages') = Len(messages) + 1
        /\ IsPrefix(messages, messages')
        /\ messages'[Len(messages')].role = "tool"
        /\ messages'[Len(messages')].tool_call_id \in {toolCalls[tcIdx].id, NoID}
        /\ IsPrefix(ToolContent(toolCalls[tcIdx].name, <<>>), messages'[Len(messages')].content)
        /\ IF tcIdx < Len(toolCalls)
           THEN pc' = "tools" /\ tcIdx' = tcIdx + 1 /\ toolCalls' = toolCalls
           ELSE pc' = "loop" /\ Len(messages') = Len(lastReq) + Len(toolCalls) + 1

\* C39: once the stream's channel has closed after delivering t1..tn, Run
\* appends one assistant message carrying t1..tn, then executes the calls one
\* at a time in that order with one tool message each, n + 1 messages in all.
C39_OneAssistantThenOneMessagePerCall ==
    [][C39_CollectStep /\ C39_AssistantStep /\ C39_ToolStep]_vars

\* An iteration with two calls, the second with unparsable arguments, is over:
\* the conversation has the assistant message and two tool messages more.
C39_Witness ==
    /\ pc = "loop"
    /\ iter = 1
    /\ Len(messages) = Len(buildMessages) + 3
    /\ messages[3].role = "assistant"
    /\ Len(messages[3].tool_calls) = 2
    /\ messages[3].tool_calls[2].args.form = "garbage"
    /\ messages[4].role = "tool"
    /\ messages[4].tool_call_id = messages[3].tool_calls[1].id
    /\ messages[5].role = "tool"

----
\* Claims about the log files of several sessions.

Started(s) == sess[s].at # "new"

\* No two started sessions have the same log file.
OwnLogFile ==
    \A s, t \in Sessions : (s # t /\ Started(s) /\ Started(t)) => sess[s].path # sess[t].path

\* The start of a session leaves the log file of every other session as it was.
StartKeepsOtherLogs ==
    \A s, t \in Sessions :
        (s # t /\ ~Started(s) /\ Started(s)' /\ Started(t)) =>
            logDir'[sess[t].path] = logDir[sess[t].path]

\* C40: two logged sessions rooted at the same base directory never write to
\* the same log file, and the start of a session never truncates or
\* overwrites the log file of another, also when both start within one second.
C40_SessionsKeepApart == []OwnLogFile /\ [][StartKeepsOtherLogs]_vars

\* A session's record is gone: it wrote, and the file no longer has it.
RecordLost ==
    \E s \in Sessions :
        /\ sess[s].n > 0
        /\ \A k \in 1..Len(logDir[sess[s].path]) : logDir[sess[s].path][k].by # s

\* A start in a later second leaves the logs of the earlier sessions alone.
StartInLaterSecondKeepsLogs ==
    [][\A s, t \in Sessions :
          (s # t /\ ~Started(s) /\ Started(s)' /\ Started(t) /\ sess[t].path # LogName(wall)) =>
              /\ logDir'[sess[t].path] = logDir[sess[t].path]
              /\ sess'[s].path # sess[t].path]_vars

====
